---- MODULE Spec2Model ----
(***************************************************************************)
(* Traders Voice: the trade-note extractor (tradeExtractor.js).            *)
(*                                                                         *)
(* A transcript is a TLA+ string over ASCII.  JavaScript regular           *)
(* expressions are represented as syntax trees and run by a backtracking   *)
(* matcher (Match) with the priorities of the ECMAScript matcher: left to  *)
(* right alternation, greedy quantifiers, leftmost match (exec).           *)
(* Numbers are kept in hundredths (the patterns capture at most two        *)
(* decimals), so 145.50 is 14550.                                          *)
(***************************************************************************)
EXTENDS Integers, Sequences, FiniteSets, TLC

VARIABLES
    input,   \* the argument of the call of extractTradeInfo
    pc,      \* "ready" before the call, "returned" after it
    trade,   \* the local trade object when validation is reached
    result,  \* what the call returned
    tables,  \* the module-level lookup tables
    calls,   \* the calls of extractTradeInfo in progress, when several run
    heap,    \* the trade objects allocated by those calls, by reference
    currentDemoIndex,  \* demoData.js: the index of the next demo
    transcription,     \* main.js: the text content of the transcription element
    currentTradeInfo,  \* main.js: the trade of the current note
    currentAudioBlob,  \* main.js: the audio of the current note
    pendingDemo,       \* main.js: the timeout of the empty-state demo button is pending
    demoLog,           \* the demos returned by getNextDemo and the resets, in order
    storage,           \* localStorage: the list of saved notes under STORAGE_KEY
    saves,             \* the calls of saveCurrentNote suspended at the audio conversion
    message,           \* the toast or error shown last
    clock,             \* Date.now()
    uiState,           \* the state shown by setState: idle, recording or processing
    isProcessing,      \* a transcription is running
    mediaRecorder,     \* the recorder the page refers to, 0 for null
    recorders,         \* every recorder asked for: how far it got
    audioChunks,       \* the chunks received, each with the recorder it came from
    jobs               \* the calls of transcribe that wait for their result

\* the variables of several calls in progress
callVars == <<tables, calls, heap>>

\* the variables of the application page
notesVars == <<storage, saves, message, clock>>

recVars == <<uiState, isProcessing, mediaRecorder, recorders, audioChunks, jobs>>

appVars ==
    <<currentDemoIndex, transcription, currentTradeInfo, currentAudioBlob, pendingDemo, demoLog,
      notesVars, recVars>>

vars == <<input, pc, trade, result, callVars, appVars>>

-----------------------------------------------------------------------------
(* Characters and strings *)

UpperLetters == <<"A","B","C","D","E","F","G","H","I","J","K","L","M",
                  "N","O","P","Q","R","S","T","U","V","W","X","Y","Z">>
LowerLetters == <<"a","b","c","d","e","f","g","h","i","j","k","l","m",
                  "n","o","p","q","r","s","t","u","v","w","x","y","z">>
Digits == <<"0","1","2","3","4","5","6","7","8","9">>

RangeOf(seq) == {seq[i] : i \in 1..Len(seq)}

UpperSet == RangeOf(UpperLetters)
LowerSet == RangeOf(LowerLetters)
DigitSet == RangeOf(Digits)
\* \w of a regular expression
WordChars == UpperSet \cup LowerSet \cup DigitSet \cup {"_"}
\* \s of a regular expression (the whitespace a transcript holds here)
SpaceChars == {" "}
\* [\d,]
NumChars == DigitSet \cup {","}

IndexIn(seq, c) == CHOOSE i \in 1..Len(seq) : seq[i] = c

\* the character at 0-based index i, "" outside the string (String.charAt)
charAt(s, i) == IF i >= 0 /\ i < Len(s) THEN SubSeq(s, i + 1, i + 1) ELSE ""

\* String.substring(a, b) for 0 <= a, with b clamped to the length
substring(s, a, b) ==
    LET e == IF b > Len(s) THEN Len(s) ELSE b
    IN  IF a >= e THEN "" ELSE SubSeq(s, a + 1, e)

RECURSIVE MapRange(_, _, _, _, _)
\* characters lo..hi (1-based) of s, each character of from replaced by the one of to
MapRange(s, lo, hi, from, to) ==
    IF lo > hi THEN ""
    ELSE IF lo = hi
    THEN LET c == SubSeq(s, lo, lo)
         IN  IF c \in RangeOf(from) THEN to[IndexIn(from, c)] ELSE c
    ELSE LET mid == (lo + hi) \div 2
         IN  MapRange(s, lo, mid, from, to) \o MapRange(s, mid + 1, hi, from, to)

MapChars(s, i, from, to) == MapRange(s, i, Len(s), from, to)

\* String.prototype.toUpperCase / toLowerCase on ASCII
toUpperCase(s) == MapChars(s, 1, LowerLetters, UpperLetters)
toLowerCase(s) == MapChars(s, 1, UpperLetters, LowerLetters)

\* String.prototype.includes
includes(s, sub) ==
    \E i \in 0..(Len(s) - Len(sub)) : SubSeq(s, i + 1, i + Len(sub)) = sub

-----------------------------------------------------------------------------
(* Regular expressions: syntax trees *)

Lit(s) == [k |-> "lit", s |-> s]                      \* literal text
Cls(cs, lo, hi) == [k |-> "cls", cs |-> cs, lo |-> lo, hi |-> hi]  \* [..]{lo,hi}, greedy
Cat(rs) == [k |-> "cat", rs |-> rs]                   \* r1 r2 ...
Alt(rs) == [k |-> "alt", rs |-> rs]                   \* r1 | r2 | ...
Opt(r) == [k |-> "alt", rs |-> <<r, [k |-> "cat", rs |-> <<>>]>>]  \* r? (greedy)
Grp(n, r) == [k |-> "grp", n |-> n, r |-> r]          \* capture group n
NegLook(r) == [k |-> "neg", r |-> r]                  \* (?!r)
WordB == [k |-> "wb"]                                 \* \b
AnyChar == [k |-> "any"]                              \* .

\* * and +: hi = -1 never counts down to 0, so the run is unbounded
Star(cs) == Cls(cs, 0, -1)
Plus(cs) == Cls(cs, 1, -1)
AltLits(ws) == Alt([i \in 1..Len(ws) |-> Lit(ws[i])])

NoMatch == [ok |-> FALSE]
NoGroup == <<-1, -1>>

IsWordAt(s, i) == charAt(s, i) \in WordChars

RECURSIVE RunLen(_, _, _, _)
\* the number of characters of cs from 0-based position p on, at most hi
RunLen(s, p, cs, hi) ==
    IF hi = 0 \/ p >= Len(s) \/ charAt(s, p) \notin cs THEN 0
    ELSE 1 + RunLen(s, p + 1, cs, hi - 1)

RECURSIVE Match(_, _, _)
RECURSIVE TryAlts(_, _, _, _, _)
RECURSIVE TryLens(_, _, _, _, _)

\* Backtracking match of the node sequence todo at state st = [ok, pos, g];
\* the first success in priority order, or NoMatch.
Match(todo, s, st) ==
    IF todo = <<>> THEN st
    ELSE
      LET r == Head(todo)
          rest == Tail(todo)
      IN  CASE r.k = "lit" ->
                 IF /\ st.pos + Len(r.s) <= Len(s)
                    /\ SubSeq(s, st.pos + 1, st.pos + Len(r.s)) = r.s
                 THEN Match(rest, s, [st EXCEPT !.pos = @ + Len(r.s)])
                 ELSE NoMatch
            [] r.k = "cls" ->
                 LET n == RunLen(s, st.pos, r.cs, r.hi)
                 IN  IF n < r.lo THEN NoMatch ELSE TryLens(n, r.lo, rest, s, st)
            [] r.k = "cat" -> Match(r.rs \o rest, s, st)
            [] r.k = "alt" -> TryAlts(r.rs, 1, rest, s, st)
            [] r.k = "grp" ->
                 Match(<<[k |-> "gs", n |-> r.n], r.r, [k |-> "ge", n |-> r.n]>> \o rest, s, st)
            [] r.k = "gs" ->
                 Match(rest, s, [st EXCEPT !.g[r.n] = <<st.pos, -1>>])
            [] r.k = "ge" ->
                 Match(rest, s, [st EXCEPT !.g[r.n] = <<@[1], st.pos>>])
            [] r.k = "neg" ->
                 IF Match(<<r.r>>, s, st).ok THEN NoMatch ELSE Match(rest, s, st)
            [] r.k = "wb" ->
                 IF IsWordAt(s, st.pos - 1) # IsWordAt(s, st.pos)
                 THEN Match(rest, s, st) ELSE NoMatch
            [] r.k = "any" ->
                 IF st.pos < Len(s)
                 THEN Match(rest, s, [st EXCEPT !.pos = @ + 1]) ELSE NoMatch

TryAlts(rs, i, rest, s, st) ==
    IF i > Len(rs) THEN NoMatch
    ELSE LET m == Match(<<rs[i]>> \o rest, s, st)
         IN  IF m.ok THEN m ELSE TryAlts(rs, i + 1, rest, s, st)

\* greedy: the longest run first, then shorter ones down to lo
TryLens(n, lo, rest, s, st) ==
    IF n < lo THEN NoMatch
    ELSE LET m == Match(rest, s, [st EXCEPT !.pos = @ + n])
         IN  IF m.ok THEN m ELSE TryLens(n - 1, lo, rest, s, st)

RECURSIVE ExecIn(_, _, _, _)
\* the leftmost match starting at an index in lo..hi
ExecIn(re, s, lo, hi) ==
    IF lo > hi THEN NoMatch
    ELSE IF lo = hi
    THEN LET m == Match(<<re>>, s, [ok |-> TRUE, pos |-> lo, g |-> <<NoGroup, NoGroup>>])
         IN  IF m.ok THEN [ok |-> TRUE, index |-> lo, end |-> m.pos, g |-> m.g] ELSE NoMatch
    ELSE LET mid == (lo + hi) \div 2
             left == ExecIn(re, s, lo, mid)
         IN  IF left.ok THEN left ELSE ExecIn(re, s, mid + 1, hi)

\* the leftmost match starting at index >= i
ExecFrom(re, s, i) == ExecIn(re, s, i, Len(s))

\* String.prototype.match(re) / RegExp.prototype.exec, without the g flag
exec(re, s) == ExecFrom(re, s, 0)

\* RegExp.prototype.test
test(re, s) == exec(re, s).ok

\* the text of capture group n of match m, "" when the group did not take part
group(m, s, n) ==
    IF m.g[n][2] < 0 THEN "" ELSE substring(s, m.g[n][1], m.g[n][2])

RECURSIVE ReplaceFrom(_, _, _, _)
\* String.prototype.replace(re with the g flag, repl); no pattern here matches ""
ReplaceFrom(re, s, i, repl) ==
    LET m == ExecFrom(re, s, i)
    IN  IF i >= Len(s) THEN ""
        ELSE IF ~m.ok THEN substring(s, i, Len(s))
        ELSE IF m.end > m.index
        THEN substring(s, i, m.index) \o repl \o ReplaceFrom(re, s, m.end, repl)
        ELSE substring(s, i, m.index + 1) \o ReplaceFrom(re, s, m.index + 1, repl)

replaceAll(re, s, repl) == ReplaceFrom(re, s, 0, repl)

-----------------------------------------------------------------------------
(* JavaScript values, tagged by type *)

Null == [t |-> "null"]
Undefined == [t |-> "undefined"]
NaN == [t |-> "nan"]
Num(h) == [t |-> "num", v |-> h]        \* h is the number in hundredths
Str(s) == [t |-> "str", v |-> s]
Bool(b) == [t |-> "bool", v |-> b]
List(q) == [t |-> "list", v |-> q]      \* an array
Obj == [t |-> "object"]                 \* any other object

\* the number of hundredths in one unit
Scale == 100

\* ToBoolean
Truthy(x) ==
    CASE x.t \in {"null", "undefined", "nan"} -> FALSE
      [] x.t = "num" -> x.v # 0
      [] x.t = "str" -> x.v # ""
      [] x.t = "bool" -> x.v
      [] OTHER -> TRUE

RECURSIVE DigitsValue(_, _)
\* the value of the first n characters of s, all digits
DigitsValue(s, n) ==
    IF n = 0 THEN 0
    ELSE 10 * DigitsValue(s, n - 1) + (IndexIn(Digits, charAt(s, n - 1)) - 1)

\* parseFloat on a string without sign or exponent: the longest decimal prefix
parseFloat(str) ==
    LET ni == RunLen(str, 0, DigitSet, -1)
        dot == charAt(str, ni) = "."
        nf == IF dot THEN RunLen(str, ni + 1, DigitSet, 2) ELSE 0
        ip == DigitsValue(str, ni)
        fd == DigitsValue(substring(str, ni + 1, ni + 1 + nf), nf)
    IN  IF ni = 0 /\ nf = 0 THEN NaN
        ELSE Num(ip * Scale + (IF nf = 1 THEN 10 * fd ELSE fd))

\* parseInt(str, 10) on a string of digits
parseInt(str) ==
    LET ni == RunLen(str, 0, DigitSet, -1)
    IN  IF ni = 0 THEN NaN ELSE Num(DigitsValue(str, ni) * Scale)

\* parseNumber without the removal of the commas
parseNumber_keepCommas(str) ==
    IF str = "" THEN Null
    ELSE LET num == parseFloat(str)
         IN  IF num.t = "nan" THEN Null ELSE num

\* parseNumber: "86,000" -> 86000, null when there is nothing to parse
parseNumber(str) ==
    IF str = "" THEN Null
    ELSE LET cleaned == replaceAll(Lit(","), str, "")
             num == parseFloat(cleaned)
         IN  IF num.t = "nan" THEN Null ELSE num

-----------------------------------------------------------------------------
(* Lookup tables *)

EXCLUDED_WORDS ==
    {"AT", "THE", "AND", "FOR", "WITH", "USD", "USDT", "USDC", "EUR", "GBP",
     "BUY", "SELL", "LONG", "SHORT", "STOP", "LOSS", "TAKE", "PROFIT", "TARGET",
     "OPEN", "CLOSE", "SET", "PUT", "CALL", "GET", "TRADE", "TRADING",
     "PRICE", "SHARES", "CONTRACTS", "LOTS", "QUANTITY", "POSITION", "SIZE",
     "MEET", "MEAN", "REVERSION", "MARKET", "LIMIT", "ORDER"}

CRYPTO_TOKENS ==
    <<"BTC", "ETH", "SOL", "XRP", "ADA", "DOGE", "DOT", "MATIC", "LINK", "AVAX",
      "UNI", "ATOM", "LTC", "BCH", "XLM", "ALGO", "VET", "FTM", "NEAR", "APT",
      "ARB", "OP", "INJ", "SUI", "SEI", "TIA", "PEPE", "SHIB", "BONK", "WIF",
      "BNB", "XMR">>

CRYPTO_NAME_TO_TICKER ==
    <<<<"BITCOIN", "BTC">>, <<"ETHEREUM", "ETH">>, <<"SOLANA", "SOL">>,
      <<"CARDANO", "ADA">>, <<"DOGECOIN", "DOGE">>, <<"AVALANCHE", "AVAX">>,
      <<"POLKADOT", "DOT">>, <<"CHAINLINK", "LINK">>, <<"LITECOIN", "LTC">>,
      <<"MONERO", "XMR">>, <<"BINANCE COIN", "BNB">>, <<"BNB", "BNB">>,
      <<"RIPPLE", "XRP">>>>

SPOKEN_PAIR_VARIANTS ==
    <<<<"BITCOIN TETHER", "BTC/USDT">>, <<"BTC USDT", "BTC/USDT">>,
      <<"ETHEREUM TETHER", "ETH/USDT">>, <<"ETHER TETHER", "ETH/USDT">>,
      <<"ETH USDT", "ETH/USDT">>, <<"EURO DOLLAR", "EUR/USD">>,
      <<"POUND DOLLAR", "GBP/USD">>, <<"STERLING DOLLAR", "GBP/USD">>,
      <<"DOLLAR YEN", "USD/JPY">>>>

EXCHANGES ==
    <<"BINANCE", "COINBASE", "KRAKEN", "BYBIT", "OKX", "KUCOIN", "BITFINEX",
      "GEMINI", "HUOBI", "GATE.IO", "BITGET", "MEXC", "CRYPTO.COM">>

INDICATORS ==
    <<"RSI", "MACD", "MHCD", "MCD", "MAC D",
      "EMA", "SMA", "VWAP", "ATR", "BOLLINGER", "BOLLINGER BANDS",
      "STOCHASTIC", "FIBONACCI", "ICHIMOKU", "ADX", "CCI", "WILLIAMS">>

\* INDICATOR_CORRECTIONS[name] || name
INDICATOR_CORRECTIONS(name) ==
    IF name \in {"MHCD", "MCD", "MAC D"} THEN "MACD" ELSE name

STOP_LOSS_VARIANTS ==
    <<"STOP LOSS", "STOPLOSS", "STOP-LOSS",
      "STOPPLERS", "STOPPERS", "STOP PLUS", "STOPPER",
      "SL", "S L", "S.L.">>

TIMEFRAME_VARIANTS ==
    <<<<"FIFTEEN MINUTES", "15m">>, <<"15 MINUTES", "15m">>, <<"15-MINUTE", "15m">>,
      <<"15M CHART", "15m">>, <<"FIVE MINUTES", "5m">>, <<"5 MINUTES", "5m">>,
      <<"5-MINUTE", "5m">>, <<"5M CHART", "5m">>, <<"ONE MINUTE", "1m">>,
      <<"1 MINUTE", "1m">>, <<"1-MINUTE", "1m">>, <<"1M CHART", "1m">>,
      <<"FOUR-HOUR", "4h">>, <<"4-HOUR", "4h">>, <<"FOUR HOUR", "4h">>,
      <<"FOUR HOURS", "4h">>, <<"4 HOUR", "4h">>, <<"4 HOURS", "4h">>,
      <<"4H CHART", "4h">>, <<"ONE-HOUR", "1h">>, <<"1-HOUR", "1h">>,
      <<"ONE HOUR", "1h">>, <<"1 HOUR", "1h">>, <<"1H CHART", "1h">>,
      <<"HOUR CHART", "1h">>, <<"HOURLY", "1h">>, <<"ONE DAY", "1D">>,
      <<"1 DAY", "1D">>, <<"1-DAY", "1D">>, <<"DAY CHART", "1D">>,
      <<"DAILY", "1D">>, <<"ONE WEEK", "1W">>, <<"1 WEEK", "1W">>,
      <<"1-WEEK", "1W">>, <<"WEEK CHART", "1W">>, <<"WEEKLY", "1W">>,
      <<"ONE MONTH", "1M">>, <<"1 MONTH", "1M">>, <<"MONTH CHART", "1M">>,
      <<"MONTHLY", "1M">>>>

STOCK_TICKERS ==
    <<"AAPL", "GOOGL", "GOOG", "MSFT", "AMZN", "META", "TSLA", "NVDA", "AMD", "INTC",
      "NFLX", "DIS", "BA", "JPM", "GS", "V", "MA", "WMT", "HD", "NKE", "COST", "PEP",
      "KO", "MCD", "SBUX", "CVX", "XOM", "PFE", "JNJ", "UNH", "ABBV", "MRK", "LLY",
      "SPY", "QQQ", "IWM", "DIA", "VTI", "VOO", "ARKK", "XLF", "XLE", "XLK">>

\* the quote currencies of the pair patterns: USDT|USDC|USD|BUSD|EUR|BTC|ETH
QuoteAlt == AltLits(<<"USDT", "USDC", "USD", "BUSD", "EUR", "BTC", "ETH">>)

\* ([\d,]+(?:\.\d{1,2})?) as capture group n
NumCap(n) == Grp(n, Cat(<<Plus(NumChars), Opt(Cat(<<Lit("."), Cls(DigitSet, 1, 2)>>))>>))

\* \s* and \s+
Ws0 == Star(SpaceChars)
Ws1 == Plus(SpaceChars)

-----------------------------------------------------------------------------
(* extractTradeInfo: the field detectors.  text is the transcript and       *)
(* upperText its upper-cased form; a pattern with the i flag is run on      *)
(* upperText with its letters in upper case.                                *)

buyPatterns ==
    Cat(<<WordB, Grp(1, AltLits(<<"BUY", "BUYING", "BOUGHT", "LONG", "GOING LONG",
                                  "OPEN LONG", "OPENING LONG">>)), WordB>>)
sellPatterns ==
    Cat(<<WordB, Grp(1, AltLits(<<"SELL", "SELLING", "SOLD", "SHORT", "GOING SHORT",
                                  "OPEN SHORT", "OPENING SHORT", "CLOSE", "CLOSING">>)), WordB>>)

\* actionDetection with the sell branch forgetting tradeType
actionDetection_sellWithoutType(upperText) ==
    IF test(buyPatterns, upperText) THEN <<Str("buy"), Str("long")>>
    ELSE IF test(sellPatterns, upperText) THEN <<Str("sell"), Null>>
    ELSE <<Null, Null>>

\* actionDetection testing the sell cues first
actionDetection_sellFirst(upperText) ==
    IF test(sellPatterns, upperText) THEN <<Str("sell"), Str("short")>>
    ELSE IF test(buyPatterns, upperText) THEN <<Str("buy"), Str("long")>>
    ELSE <<Null, Null>>

\* ACTION DETECTION: <<action, tradeType>>
actionDetection(upperText) ==
    IF test(buyPatterns, upperText) THEN <<Str("buy"), Str("long")>>
    ELSE IF test(sellPatterns, upperText) THEN <<Str("sell"), Str("short")>>
    ELSE <<Null, Null>>

RECURSIVE exchangeFrom(_, _)
\* EXCHANGE DETECTION: the first listed exchange the text includes
exchangeFrom(upperText, i) ==
    IF i > Len(EXCHANGES) THEN Null
    ELSE IF includes(upperText, EXCHANGES[i])
         THEN Str(charAt(EXCHANGES[i], 0)
                  \o toLowerCase(substring(EXCHANGES[i], 1, Len(EXCHANGES[i]))))
         ELSE exchangeFrom(upperText, i + 1)

exchangeDetection(upperText) == exchangeFrom(upperText, 1)

RECURSIVE timeframeFrom_lastFirst(_, _)
\* timeframeFrom scanning the list from its end
timeframeFrom_lastFirst(upperText, i) ==
    IF i > Len(TIMEFRAME_VARIANTS) THEN Null
    ELSE LET k == Len(TIMEFRAME_VARIANTS) + 1 - i
         IN  IF includes(upperText, TIMEFRAME_VARIANTS[k][1])
             THEN Str(TIMEFRAME_VARIANTS[k][2])
             ELSE timeframeFrom_lastFirst(upperText, i + 1)

RECURSIVE timeframeFrom(_, _)
\* TIMEFRAME DETECTION: the first listed variant the text includes
timeframeFrom(upperText, i) ==
    IF i > Len(TIMEFRAME_VARIANTS) THEN Null
    ELSE IF includes(upperText, TIMEFRAME_VARIANTS[i][1])
         THEN Str(TIMEFRAME_VARIANTS[i][2])
         ELSE timeframeFrom(upperText, i + 1)

timeframeDetection(upperText) == timeframeFrom(upperText, 1)

\* indicator.split(' ')[0]
splitFirst(str) ==
    LET n == RunLen(str, 0, {charAt(str, j) : j \in 0..(Len(str) - 1)} \ {" "}, -1)
    IN  substring(str, 0, n)

\* new RegExp(`\\b${indicator.replace(/\./g, '\\.')}\\b`, 'i'): dots escaped
indicatorPattern(indicator) == Cat(<<WordB, Lit(indicator), WordB>>)

\* the name pushed for a matching vocabulary entry
normalizedIndicator(indicator) == INDICATOR_CORRECTIONS(splitFirst(indicator))

Member(q, x) == \E j \in 1..Len(q) : q[j] = x

RECURSIVE indicatorsFrom(_, _, _)
\* INDICATOR DETECTION: the vocabulary is scanned in its order
indicatorsFrom(upperText, i, acc) ==
    IF i > Len(INDICATORS) THEN acc
    ELSE IF /\ test(indicatorPattern(INDICATORS[i]), upperText)
            /\ ~Member(acc, normalizedIndicator(INDICATORS[i]))
         THEN indicatorsFrom(upperText, i + 1, Append(acc, normalizedIndicator(INDICATORS[i])))
         ELSE indicatorsFrom(upperText, i + 1, acc)

\* the names found, last found first
indicatorDetection_lastFirst(upperText) ==
    LET q == indicatorsFrom(upperText, 1, <<>>)
    IN  List([j \in 1..Len(q) |-> q[Len(q) + 1 - j]])

indicatorDetection(upperText) == List(indicatorsFrom(upperText, 1, <<>>))

leveragePatterns ==
    <<Cat(<<Grp(1, Plus(DigitSet)), Lit("X"), Ws0, Lit("LEVERAGE")>>),
      Cat(<<Lit("LEVERAGE"), Ws0, Opt(Cat(<<Lit("OF"), Ws0>>)), Grp(1, Plus(DigitSet)),
            Opt(Lit("X"))>>),
      Cat(<<WordB, AltLits(<<"WITH", "USING">>), Ws1, Grp(1, Plus(DigitSet)), Lit("X"), WordB>>),
      Cat(<<WordB, Grp(1, Plus(DigitSet)), Lit("X"), Ws1,
            AltLits(<<"LONG", "SHORT", "POSITION">>)>>)>>

\* the bounds of an accepted leverage
MinLeverage == 1
MaxLeverage == 125

RECURSIVE leverageFrom_firstMatchOnly(_, _)
\* LEVERAGE DETECTION giving up at the first pattern that matches
leverageFrom_firstMatchOnly(upperText, i) ==
    IF i > Len(leveragePatterns) THEN Null
    ELSE LET match == exec(leveragePatterns[i], upperText)
             lev == IF match.ok THEN parseInt(group(match, upperText, 1)) ELSE NaN
         IN  IF match.ok
             THEN (IF lev.t = "num" /\ lev.v >= MinLeverage * Scale /\ lev.v <= MaxLeverage * Scale
                   THEN lev ELSE Null)
             ELSE leverageFrom_firstMatchOnly(upperText, i + 1)

RECURSIVE leverageFrom(_, _)
\* LEVERAGE DETECTION: the first pattern whose number is in range
leverageFrom(upperText, i) ==
    IF i > Len(leveragePatterns) THEN Null
    ELSE LET match == exec(leveragePatterns[i], upperText)
             lev == IF match.ok THEN parseInt(group(match, upperText, 1)) ELSE NaN
         IN  IF lev.t = "num" /\ lev.v >= MinLeverage * Scale /\ lev.v <= MaxLeverage * Scale
             THEN lev
             ELSE leverageFrom(upperText, i + 1)

leverageDetection(upperText) == leverageFrom(upperText, 1)

-----------------------------------------------------------------------------
(* Ticker detection *)

RECURSIVE spokenPairFrom(_, _)
\* tier 1: spoken pair variants, by substring
spokenPairFrom(upperText, i) ==
    IF i > Len(SPOKEN_PAIR_VARIANTS) THEN Null
    ELSE IF includes(upperText, SPOKEN_PAIR_VARIANTS[i][1])
         THEN Str(SPOKEN_PAIR_VARIANTS[i][2])
         ELSE spokenPairFrom(upperText, i + 1)

spokenPairTicker(upperText) == spokenPairFrom(upperText, 1)

\* \bNAME(?:\s+(USDT|USDC|USD|BUSD|EUR|BTC|ETH))?\b
namePattern(cryptoName) ==
    Cat(<<WordB, Lit(cryptoName), Opt(Cat(<<Ws1, Grp(1, QuoteAlt)>>)), WordB>>)

\* \b(USDT|USDC|USD|BUSD|EUR)\b
quotePattern ==
    Cat(<<WordB, Grp(1, AltLits(<<"USDT", "USDC", "USD", "BUSD", "EUR">>)), WordB>>)

RECURSIVE cryptoNameFrom(_, _)
\* tier 2: crypto name to ticker, with the attached or a standalone quote currency
cryptoNameFrom(upperText, i) ==
    IF i > Len(CRYPTO_NAME_TO_TICKER) THEN Null
    ELSE LET ticker == CRYPTO_NAME_TO_TICKER[i][2]
             match == exec(namePattern(CRYPTO_NAME_TO_TICKER[i][1]), upperText)
         IN  IF match.ok
             THEN IF group(match, upperText, 1) # ""
                  THEN Str(ticker \o "/" \o toUpperCase(group(match, upperText, 1)))
                  ELSE LET quoteMatch == exec(quotePattern, upperText)
                       IN  IF quoteMatch.ok
                           THEN Str(ticker \o "/" \o toUpperCase(group(quoteMatch, upperText, 1)))
                           ELSE Str(ticker)
             ELSE cryptoNameFrom(upperText, i + 1)

cryptoNameTicker(upperText) == cryptoNameFrom(upperText, 1)

cryptoPairPatterns ==
    <<Cat(<<WordB, Grp(1, AltLits(CRYPTO_TOKENS)), Ws0, Cls({"/", "-"}, 0, 1), Ws0,
            Grp(2, QuoteAlt), WordB>>),
      Cat(<<WordB, Grp(1, AltLits(CRYPTO_TOKENS)), Grp(2, QuoteAlt), WordB>>)>>

RECURSIVE cryptoPairFrom(_, _)
\* tier 3: a symbolic pair, BTC USDT, BTC/USDT, BTC-USDT, BTCUSDT
cryptoPairFrom(upperText, i) ==
    IF i > Len(cryptoPairPatterns) THEN Null
    ELSE LET match == exec(cryptoPairPatterns[i], upperText)
         IN  IF match.ok
             THEN Str(toUpperCase(group(match, upperText, 1) \o "/" \o group(match, upperText, 2)))
             ELSE cryptoPairFrom(upperText, i + 1)

cryptoPairTicker(upperText) == cryptoPairFrom(upperText, 1)

stockPattern == Cat(<<WordB, Grp(1, AltLits(STOCK_TICKERS)), WordB>>)

\* tier 4: a known stock ticker
stockTicker(upperText) ==
    LET stockMatch == exec(stockPattern, upperText)
    IN  IF stockMatch.ok THEN Str(toUpperCase(group(stockMatch, upperText, 1))) ELSE Null

contextPatterns ==
    <<Cat(<<WordB, Grp(1, AltLits(<<"BUY", "SELL", "LONG", "SHORT", "TRADE", "TRADING">>)),
            Ws1, Grp(2, Cls(UpperSet \cup LowerSet, 2, 5)), WordB>>),
      Cat(<<WordB, Grp(1, Cls(UpperSet \cup LowerSet, 2, 5)), Ws1,
            AltLits(<<"AT", "@", "$", "PRICE">>)>>),
      Cat(<<WordB, Lit("TICKER"), Ws1, Grp(1, Cls(UpperSet \cup LowerSet, 2, 5)), WordB>>)>>

RECURSIVE genericFrom_noExclusion(_, _)
\* tier 5 without the test against EXCLUDED_WORDS
genericFrom_noExclusion(upperText, i) ==
    IF i > Len(contextPatterns) THEN Null
    ELSE LET match == exec(contextPatterns[i], upperText)
             g2 == IF match.ok THEN group(match, upperText, 2) ELSE ""
             candidate == IF match.ok
                          THEN toUpperCase(IF g2 # "" THEN g2 ELSE group(match, upperText, 1))
                          ELSE ""
         IN  IF match.ok
             THEN Str(candidate)
             ELSE genericFrom_noExclusion(upperText, i + 1)

RECURSIVE genericFrom(_, _)
\* tier 5: a ticker-like word next to a trading context word, not an excluded word
genericFrom(upperText, i) ==
    IF i > Len(contextPatterns) THEN Null
    ELSE LET match == exec(contextPatterns[i], upperText)
             g2 == IF match.ok THEN group(match, upperText, 2) ELSE ""
             candidate == IF match.ok
                          THEN toUpperCase(IF g2 # "" THEN g2 ELSE group(match, upperText, 1))
                          ELSE ""
         IN  IF match.ok /\ candidate \notin EXCLUDED_WORDS
             THEN Str(candidate)
             ELSE genericFrom(upperText, i + 1)

genericTicker(upperText) == genericFrom(upperText, 1)

\* the cascade with the stock tier not guarded by "if (!trade.ticker)"
tickerDetection_stockUnguarded(upperText) ==
    LET t1 == spokenPairTicker(upperText)
        t2 == IF ~Truthy(t1) THEN cryptoNameTicker(upperText) ELSE t1
        t3 == IF ~Truthy(t2) THEN cryptoPairTicker(upperText) ELSE t2
        st == stockTicker(upperText)
        t4 == IF st # Null THEN st ELSE t3
        t5 == IF ~Truthy(t4) THEN genericTicker(upperText) ELSE t4
    IN  t5

\* the cascade of "if (!trade.ticker)" blocks
tickerDetection(upperText) ==
    LET t1 == spokenPairTicker(upperText)
        t2 == IF ~Truthy(t1) THEN cryptoNameTicker(upperText) ELSE t1
        t3 == IF ~Truthy(t2) THEN cryptoPairTicker(upperText) ELSE t2
        t4 == IF ~Truthy(t3) THEN stockTicker(upperText) ELSE t3
        t5 == IF ~Truthy(t4) THEN genericTicker(upperText) ELSE t4
    IN  t5

-----------------------------------------------------------------------------
(* Price levels and sizes *)

pricePatterns ==
    <<Cat(<<AltLits(<<"PRICE", "ENTRY", "ENTER", "AT">>), Ws1, Opt(Cat(<<Lit("OF"), Ws1>>)),
            Opt(Cat(<<Lit("IS"), Ws1>>)), Opt(Lit("$")), Ws0, NumCap(1)>>),
      Cat(<<Lit("$"), Ws0, NumCap(1), Ws0, Opt(AltLits(<<"EACH", "PER", "ENTRY">>))>>),
      Cat(<<AltLits(<<"BUY", "SELL", "LONG", "SHORT">>), Ws1, Opt(Cat(<<Lit("AT"), Ws1>>)),
            Opt(Lit("$")), Ws0, NumCap(1)>>)>>

\* /(?:STOP\s*LOSS|SL|TARGET|TAKE\s*PROFIT|TP)\b/i
priceExcludeBefore ==
    Cat(<<Alt(<<Cat(<<Lit("STOP"), Ws0, Lit("LOSS")>>), Lit("SL"), Lit("TARGET"),
                Cat(<<Lit("TAKE"), Ws0, Lit("PROFIT")>>), Lit("TP")>>), WordB>>)

\* the number of characters before a price candidate that are searched for a keyword
PriceWindow == 20

\* beforeText looking back half as far
beforeText_short(upperText, index) ==
    substring(upperText, IF index - 10 > 0 THEN index - 10 ELSE 0, index)

\* text.substring(Math.max(0, match.index - 20), match.index)
beforeText(upperText, index) ==
    substring(upperText, IF index - PriceWindow > 0 THEN index - PriceWindow ELSE 0, index)

RECURSIVE priceFrom_noExclusion(_, _)
\* PRICE EXTRACTION without the test of the text before the match
priceFrom_noExclusion(upperText, i) ==
    IF i > Len(pricePatterns) THEN Null
    ELSE LET match == exec(pricePatterns[i], upperText)
             price == IF match.ok THEN parseNumber(group(match, upperText, 1)) ELSE Null
         IN  IF price # Null THEN price ELSE priceFrom_noExclusion(upperText, i + 1)

RECURSIVE priceFrom(_, _)
\* PRICE EXTRACTION: the first pattern whose match is not behind a stop/target keyword
priceFrom(upperText, i) ==
    IF i > Len(pricePatterns) THEN Null
    ELSE LET match == exec(pricePatterns[i], upperText)
             price == IF match.ok /\ ~test(priceExcludeBefore, beforeText(upperText, match.index))
                      THEN parseNumber(group(match, upperText, 1))
                      ELSE Null
         IN  IF price # Null THEN price ELSE priceFrom(upperText, i + 1)

priceExtraction(upperText) == priceFrom(upperText, 1)

quantityPatterns ==
    <<Cat(<<Grp(1, Plus(NumChars)), Ws0, AltLits(<<"SHARES", "CONTRACTS", "LOTS", "UNITS">>)>>),
      Cat(<<AltLits(<<"BUY", "SELL", "LONG", "SHORT">>), Ws1, Grp(1, Plus(NumChars)), Ws1,
            NegLook(AltLits(<<"USD", "USDT", "DOLLAR">>))>>),
      Cat(<<Lit("QUANTITY"), Ws1, Opt(Cat(<<Lit("OF"), Ws1>>)), Grp(1, Plus(NumChars))>>)>>

\* a quantity is accepted when 0 < qty < 1000000
MaxQuantity == 1000000

RECURSIVE quantityFrom_noUpperLimit(_, _)
\* QUANTITY without the upper limit
quantityFrom_noUpperLimit(upperText, i) ==
    IF i > Len(quantityPatterns) THEN Null
    ELSE LET match == exec(quantityPatterns[i], upperText)
             qty == IF match.ok THEN parseNumber(group(match, upperText, 1)) ELSE Null
         IN  IF qty # Null /\ qty.v > 0
             THEN qty
             ELSE quantityFrom_noUpperLimit(upperText, i + 1)

RECURSIVE quantityFrom(_, _)
quantityFrom(upperText, i) ==
    IF i > Len(quantityPatterns) THEN Null
    ELSE LET match == exec(quantityPatterns[i], upperText)
             qty == IF match.ok THEN parseNumber(group(match, upperText, 1)) ELSE Null
         IN  IF qty # Null /\ qty.v > 0 /\ qty.v < MaxQuantity * Scale
             THEN qty
             ELSE quantityFrom(upperText, i + 1)

quantityDetection(upperText) == quantityFrom(upperText, 1)

\* USD|USDT|DOLLARS?
SizeUnit(more) == Alt(<<Lit("USD"), Lit("USDT"), Cat(<<Lit("DOLLAR"), Opt(Lit("S"))>>)>> \o more)

positionSizePatterns ==
    <<Cat(<<Grp(1, Plus(NumChars)), Ws0, SizeUnit(<<Lit("BUCKS")>>), Ws0,
            Opt(AltLits(<<"POSITION", "SIZE", "WORTH">>))>>),
      Cat(<<Lit("POSITION"), Ws0, Opt(Lit("SIZE")), Ws0, Opt(Cat(<<Lit("OF"), Ws0>>)),
            Grp(1, Plus(NumChars)), Ws0, Opt(SizeUnit(<<>>))>>),
      Cat(<<Lit("SIZE"), Ws1, Opt(Cat(<<Lit("OF"), Ws1>>)), Grp(1, Plus(NumChars)), Ws0,
            Opt(SizeUnit(<<>>))>>)>>

\* a position size is accepted when 10 <= size <= 10000000
MinPositionSize == 10
MaxPositionSize == 10000000

RECURSIVE positionSizeFrom(_, _)
positionSizeFrom(upperText, i) ==
    IF i > Len(positionSizePatterns) THEN Null
    ELSE LET match == exec(positionSizePatterns[i], upperText)
             size == IF match.ok THEN parseNumber(group(match, upperText, 1)) ELSE Null
         IN  IF size # Null /\ size.v >= MinPositionSize * Scale
                            /\ size.v <= MaxPositionSize * Scale
             THEN size
             ELSE positionSizeFrom(upperText, i + 1)

positionSizeDetection(upperText) == positionSizeFrom(upperText, 1)

RECURSIVE variantNodes(_, _)
variantNodes(variant, i) ==
    IF i >= Len(variant) THEN <<>>
    ELSE <<IF charAt(variant, i) = "." THEN AnyChar ELSE Lit(charAt(variant, i))>>
         \o variantNodes(variant, i + 1)

\* new RegExp(variant, 'gi'): the variant is the pattern source, so "." is any character
variantPattern(variant) == Cat(variantNodes(variant, 0))

RECURSIVE normalizeFrom(_, _)
\* every listed variant the text includes is replaced by STOP LOSS, in list order
normalizeFrom(normalizedText, i) ==
    IF i > Len(STOP_LOSS_VARIANTS) THEN normalizedText
    ELSE IF includes(normalizedText, STOP_LOSS_VARIANTS[i])
         THEN normalizeFrom(replaceAll(variantPattern(STOP_LOSS_VARIANTS[i]),
                                       normalizedText, "STOP LOSS"), i + 1)
         ELSE normalizeFrom(normalizedText, i + 1)

normalizeStopLoss(upperText) == normalizeFrom(upperText, 1)

stopLossPatterns ==
    <<Cat(<<Lit("STOP"), Ws0, Lit("LOSS"), Ws0, Opt(AltLits(<<"AT", "@", "IS", "OF">>)), Ws0,
            Opt(Lit("$")), Ws0, NumCap(1)>>),
      Cat(<<Lit("STOP"), Ws1, AltLits(<<"AT", "@">>), Ws0, Opt(Lit("$")), Ws0, NumCap(1)>>),
      Cat(<<Lit("SL"), Ws0, Opt(AltLits(<<"AT", "@", "IS">>)), Ws0, Opt(Lit("$")), Ws0,
            NumCap(1)>>),
      Cat(<<AltLits(<<"SET", "PUT">>), Ws1, Opt(Cat(<<Lit("A"), Ws1>>)), Lit("STOP"), Ws1,
            Opt(Cat(<<Lit("AT"), Ws1>>)), Opt(Lit("$")), Ws0, NumCap(1)>>)>>

RECURSIVE firstNumber(_, _, _)
\* the loop "for pattern: match; parseNumber; if not null, set and break"
firstNumber(patterns, str, i) ==
    IF i > Len(patterns) THEN Null
    ELSE LET match == exec(patterns[i], str)
             num == IF match.ok THEN parseNumber(group(match, str, 1)) ELSE Null
         IN  IF num # Null THEN num ELSE firstNumber(patterns, str, i + 1)

\* STOP LOSS: on the normalized text
stopLossDetection(upperText) == firstNumber(stopLossPatterns, normalizeStopLoss(upperText), 1)

takeProfitPatterns ==
    <<Cat(<<Alt(<<Cat(<<Lit("TAKE"), Ws0, Lit("PROFIT")>>), Lit("TP")>>), Ws0,
            Opt(AltLits(<<"AT", "@", "IS">>)), Ws0, Opt(Lit("$")), Ws0, NumCap(1)>>),
      Cat(<<Lit("TARGET"), Ws0, Opt(AltLits(<<"AT", "@", "IS", "OF">>)), Ws0, Opt(Lit("$")),
            Ws0, NumCap(1)>>),
      Cat(<<Lit("PROFIT"), Ws0, Opt(AltLits(<<"AT", "@">>)), Ws0, Opt(Lit("$")), Ws0,
            NumCap(1)>>)>>

\* TAKE PROFIT
takeProfitDetection(upperText) == firstNumber(takeProfitPatterns, upperText, 1)

\* (?:BREAK\s*EVEN|BREAKEVEN|B\s*E)
BreakEvenWord ==
    Alt(<<Cat(<<Lit("BREAK"), Ws0, Lit("EVEN")>>), Lit("BREAKEVEN"),
          Cat(<<Lit("B"), Ws0, Lit("E")>>)>>)

breakEvenPatterns ==
    <<Cat(<<BreakEvenWord, Ws0, Opt(AltLits(<<"AT", "@", "IS">>)), Ws0, Opt(Lit("$")), Ws0,
            NumCap(1)>>),
      Cat(<<AltLits(<<"MOVE", "MOVED", "MOVING">>), Ws1, Opt(Cat(<<Lit("STOP"), Ws1>>)),
            Opt(Cat(<<Lit("TO"), Ws1>>)), BreakEvenWord>>)>>

\* breakEvenDetection trying the cue-only pattern first
breakEvenDetection_cueFirst(upperText) ==
    IF exec(breakEvenPatterns[2], upperText).ok THEN Bool(TRUE)
    ELSE LET match == exec(breakEvenPatterns[1], upperText)
         IN  IF match.ok THEN parseNumber(group(match, upperText, 1)) ELSE Null

RECURSIVE breakEvenFrom(_, _)
\* BREAK EVEN: a number, or true when only the cue is found
breakEvenFrom(upperText, i) ==
    IF i > Len(breakEvenPatterns) THEN Null
    ELSE LET match == exec(breakEvenPatterns[i], upperText)
         IN  IF ~match.ok THEN breakEvenFrom(upperText, i + 1)
             ELSE IF group(match, upperText, 1) # ""
                  THEN LET be == parseNumber(group(match, upperText, 1))
                       IN  IF be # Null THEN be ELSE breakEvenFrom(upperText, i + 1)
                  ELSE Bool(TRUE)

breakEvenDetection(upperText) == breakEvenFrom(upperText, 1)

-----------------------------------------------------------------------------
(* extractTradeInfo *)

Fields == {"ticker", "action", "quantity", "price", "stopLoss", "takeProfit", "positionSize",
           "exchange", "timeframe", "indicators", "breakEven", "leverage", "tradeType"}

\* the trade object after every detector has run
detect(text) ==
    LET upperText == toUpperCase(text)
        act == actionDetection(upperText)
    IN  [ticker |-> tickerDetection(upperText),
         action |-> act[1],
         quantity |-> quantityDetection(upperText),
         price |-> priceExtraction(upperText),
         stopLoss |-> stopLossDetection(upperText),
         takeProfit |-> takeProfitDetection(upperText),
         positionSize |-> positionSizeDetection(upperText),
         exchange |-> exchangeDetection(upperText),
         timeframe |-> timeframeDetection(upperText),
         indicators |-> indicatorDetection(upperText),
         breakEven |-> breakEvenDetection(upperText),
         leverage |-> leverageDetection(upperText),
         tradeType |-> act[2]]

\* VALIDATION: trade.ticker || trade.action || trade.price || ...
hasTradeInfo(tr) ==
    \/ Truthy(tr.ticker) \/ Truthy(tr.action) \/ Truthy(tr.price)
    \/ Truthy(tr.quantity) \/ Truthy(tr.stopLoss) \/ Truthy(tr.takeProfit)
    \/ Truthy(tr.positionSize)

\* tr[key] === null || (Array.isArray(tr[key]) && tr[key].length === 0)
isEmptyValue(x) == x = Null \/ (x.t = "list" /\ x.v = <<>>)

\* cleanUp deleting only the null values
cleanUp_keepEmptyArrays(tr) == [key \in {f \in DOMAIN tr : tr[f] # Null} |-> tr[key]]

\* the keys with null or empty-array values are deleted
cleanUp(tr) == [key \in {f \in DOMAIN tr : ~isEmptyValue(tr[f])} |-> tr[key]]

\* a returned object, the returned null, and a thrown exception
Returned(obj) == [t |-> "record", v |-> obj]
Thrown == [t |-> "throw"]

\* VALIDATION and clean-up of the detected trade object
validate(tr) == IF ~hasTradeInfo(tr) THEN Null ELSE Returned(cleanUp(tr))

\* the local trade object of a call: text.toUpperCase() throws a TypeError unless
\* text is a string, and then no object is built
tradeOf(text) == IF text.t # "str" THEN Thrown ELSE detect(text.v)

\* the guard without the typeof test
guard_falsyOnly(text) == ~Truthy(text)

\* if (!text || typeof text !== 'string') return null;
guard(text) == ~Truthy(text) \/ text.t # "str"

\* extractTradeInfo(text) as a function of its argument
extractTradeInfo(text) ==
    IF guard(text) THEN Null
    ELSE LET tr == tradeOf(text) IN IF tr = Thrown THEN Thrown ELSE validate(tr)

-----------------------------------------------------------------------------
(* generateTradeSummary *)

Digit(d) == Digits[d + 1]

RECURSIVE DigitString(_)
\* the decimal digits of a natural number
DigitString(n) == IF n < 10 THEN Digit(n) ELSE DigitString(n \div 10) \o Digit(n % 10)

\* the fraction of a number in hundredths without trailing zeros, "" for an integer
Fraction(h) ==
    LET fr == h % Scale
    IN  IF fr = 0 THEN ""
        ELSE IF fr % 10 = 0 THEN "." \o Digit(fr \div 10)
        ELSE "." \o Digit(fr \div 10) \o Digit(fr % 10)

\* `${num}`: Number to String
NumberToString(h) == DigitString(h \div Scale) \o Fraction(h)

\* num.toFixed(2)
toFixed2(h) ==
    DigitString(h \div Scale) \o "." \o Digit((h % Scale) \div 10) \o Digit(h % 10)

RECURSIVE GroupThousands(_)
\* the integer n with a comma before every group of three digits
GroupThousands(n) ==
    IF n < 1000 THEN DigitString(n)
    ELSE GroupThousands(n \div 1000) \o ","
           \o Digit((n % 1000) \div 100) \o Digit((n % 100) \div 10) \o Digit(n % 10)

\* num.toLocaleString('en-US', {minimumFractionDigits: 0, maximumFractionDigits: 2})
toLocaleString(h) == GroupThousands(h \div Scale) \o Fraction(h)

\* formatNumber with 1000 itself on the side of the small numbers
formatNumber_above1000(h) == IF h > 1000 * Scale THEN toLocaleString(h) ELSE toFixed2(h)

\* formatNumber: two decimals below 1000, thousands separators from 1000 on
formatNumber(h) == IF h >= 1000 * Scale THEN toLocaleString(h) ELSE toFixed2(h)

RECURSIVE join(_, _)
\* Array.prototype.join
join(q, sep) ==
    IF q = <<>> THEN ""
    ELSE IF Len(q) = 1 THEN q[1]
    ELSE q[1] \o sep \o join(Tail(q), sep)

\* trade[key], undefined for a key the object does not hold
Get(tr, key) == IF key \in DOMAIN tr THEN tr[key] ELSE Undefined

\* parts.push(x) when the condition holds
PushIf(cond, q, x) == IF cond THEN Append(q, x) ELSE q

\* the character U+2022 of the summary, written in ASCII
Bullet == "*"

\* the main action and ticker
directionPart(tr) ==
    LET action == Get(tr, "action")
        ticker == Get(tr, "ticker")
        tradeType == Get(tr, "tradeType")
        actionWord == IF action = Str("buy") THEN "Buy" ELSE "Sell"
    IN  IF Truthy(action) /\ Truthy(ticker)
        THEN <<(IF Truthy(tradeType)
                THEN (IF tradeType = Str("long") THEN "Long" ELSE "Short")
                ELSE actionWord) \o " " \o ticker.v>>
        ELSE IF Truthy(ticker) THEN <<"Trade " \o ticker.v>>
        ELSE IF Truthy(action) THEN <<actionWord>>
        ELSE <<>>

\* the parts with quantity and position size in the other order
mainParts_sizeFirst(tr) ==
    LET p1 == directionPart(tr)
        p2 == PushIf(Truthy(Get(tr, "exchange")), p1, "on " \o Get(tr, "exchange").v)
        p3 == PushIf(Truthy(Get(tr, "timeframe")), p2, "(" \o Get(tr, "timeframe").v \o ")")
        p4 == PushIf(Truthy(Get(tr, "positionSize")), p3,
                     "$" \o formatNumber(Get(tr, "positionSize").v) \o " position")
        p5 == PushIf(Truthy(Get(tr, "quantity")), p4,
                     NumberToString(Get(tr, "quantity").v) \o " shares")
        p6 == PushIf(Truthy(Get(tr, "leverage")), p5,
                     NumberToString(Get(tr, "leverage").v) \o "x")
    IN  PushIf(Truthy(Get(tr, "price")), p6, "at $" \o formatNumber(Get(tr, "price").v))

\* parts before the extras: direction, exchange, timeframe, quantity, size, leverage, price
mainParts(tr) ==
    LET p1 == directionPart(tr)
        p2 == PushIf(Truthy(Get(tr, "exchange")), p1, "on " \o Get(tr, "exchange").v)
        p3 == PushIf(Truthy(Get(tr, "timeframe")), p2, "(" \o Get(tr, "timeframe").v \o ")")
        p4 == PushIf(Truthy(Get(tr, "quantity")), p3,
                     NumberToString(Get(tr, "quantity").v) \o " shares")
        p5 == PushIf(Truthy(Get(tr, "positionSize")), p4,
                     "$" \o formatNumber(Get(tr, "positionSize").v) \o " position")
        p6 == PushIf(Truthy(Get(tr, "leverage")), p5,
                     NumberToString(Get(tr, "leverage").v) \o "x")
    IN  PushIf(Truthy(Get(tr, "price")), p6, "at $" \o formatNumber(Get(tr, "price").v))

\* the additional info: stop loss, target, break even, indicators
extras(tr) ==
    LET breakEven == Get(tr, "breakEven")
        indicators == Get(tr, "indicators")
        e1 == PushIf(Truthy(Get(tr, "stopLoss")), <<>>,
                     "Stop loss: $" \o formatNumber(Get(tr, "stopLoss").v))
        e2 == PushIf(Truthy(Get(tr, "takeProfit")), e1,
                     "Target: $" \o formatNumber(Get(tr, "takeProfit").v))
        e3 == IF breakEven.t = "num"
              THEN Append(e2, "Break even: $" \o formatNumber(breakEven.v))
              ELSE IF breakEven = Bool(TRUE) THEN Append(e2, "Move to break even")
              ELSE e2
    IN  PushIf(indicators.t = "list" /\ Len(indicators.v) > 0, e3,
               "Indicators: " \o join(indicators.v, ", "))

\* generateTradeSummary(trade) for a trade object
generateTradeSummary(tr) ==
    LET parts == PushIf(extras(tr) # <<>>, mainParts(tr),
                        Bullet \o " " \o join(extras(tr), " " \o Bullet \o " "))
    IN  join(parts, " ")

-----------------------------------------------------------------------------
(* Transcripts of the model: words joined by single spaces *)

RECURSIVE JoinWords(_)
JoinWords(ws) ==
    IF ws = <<>> THEN ""
    ELSE IF Len(ws) = 1 THEN ws[1]
    ELSE ws[1] \o " " \o JoinWords(Tail(ws))

\* the sentences of at most n words over a vocabulary
Sentences(vocabulary, n) == {JoinWords(ws) : ws \in UNION {[1..k -> vocabulary] : k \in 0..n}}

\* arguments that are not strings: null, undefined, 0, 42, true, false, {}, []
NonStrings == {Null, Undefined, Num(0), Num(42 * Scale), Bool(TRUE), Bool(FALSE), Obj, List(<<>>)}

\* the longest sentence of the general specification
MaxWords == 2

GateWords ==
    {"Buy", "sold", "AAPL", "RSI", "on Binance", "daily", "at 0", "stop loss at 140",
     "move to break even", "10x leverage"}

Inputs == {Str(t) : t \in Sentences(GateWords, MaxWords)} \cup NonStrings

\* the longest sentence of the ticker specification
MaxTickerWords == 3

\* one mention for each tier of the ticker cascade
TickerWords == {"bitcoin tether", "Ethereum", "SOL/USDT", "TSLA", "buy ZZZ"}

TickerInputs == {Str(t) : t \in Sentences(TickerWords, MaxTickerWords)}

\* the longest sentence of the price specification
MaxPriceWords == 3

\* entry prices, a stop loss, a target cue, and a filler longer than the window
PriceWords ==
    {"Buy AAPL", "stop loss at $140", "at 150", "for $160", "target", "and then later maybe"}

PriceInputs == {Str(t) : t \in Sentences(PriceWords, MaxPriceWords)}

\* the longest sentence before the stop loss of the stop-loss specification
MaxStopWords == 2

StopWords == {"Sell", "150", "TSLA"}

\* the mis-transcriptions of "stop loss" as they are spoken
MisheardStopLoss == {"Stopplers", "Stoppers", "Stop Plus", "Stopper", "SL", "S L", "S.L."}

StopLevels == {"92000", "86,000"}

\* sentences "<words> V at N"
StopInputs ==
    {Str(JoinWords(<<w, v, "at", n>>)) :
        w \in Sentences(StopWords, MaxStopWords) \ {""}, v \in MisheardStopLoss, n \in StopLevels}
    \cup {Str(JoinWords(<<v, "at", n>>)) : v \in MisheardStopLoss, n \in StopLevels}

\* the longest sentence before the number phrase of the number specification
MaxNumberWords == 1

NumberWords == {"Buy", "TSLA"}

\* what is said before and after the number, one phrase for each numeric field
NumberPhrases ==
    { <<"at", "">>, <<"stop loss at", "">>, <<"take profit at", "">>, <<"break even at", "">>,
      <<"buy", " shares">>, <<"position size", " USD">> }

\* numbers with and without thousands separators, and a numeric text without a digit
NumberTexts == {"86,000", "1,234.56", "500", "1,000,000", ","}

\* sentences "<words> <before> N<after>"
NumberInputs ==
    {Str((IF w = "" THEN "" ELSE w \o " ") \o ph[1] \o " " \o n \o ph[2]) :
        w \in Sentences(NumberWords, MaxNumberWords), ph \in NumberPhrases, n \in NumberTexts}

\* the most indicator phrases in a sentence of the indicator specification
MaxIndicatorWords == 2

IndicatorWords == {"RSI", "MACD", "MHCD", "MCD", "MAC D", "EMA", "bollinger bands"}

\* sentences "Buy <indicator phrases>"
IndicatorInputs ==
    {Str(IF w = "" THEN "Buy" ELSE "Buy " \o w) : w \in Sentences(IndicatorWords, MaxIndicatorWords)}

\* the most leverage phrases in a sentence of the leverage specification
MaxLeverageWords == 2

LeverageWords ==
    {"10x leverage", "200x leverage", "leverage 5", "leverage of 0", "with 20x", "126x long",
     "125x position"}

\* sentences "Buy <leverage phrases>"
LeverageInputs ==
    {Str(IF w = "" THEN "Buy" ELSE "Buy " \o w) : w \in Sentences(LeverageWords, MaxLeverageWords)}

\* the longest sentence before the candidate of the range specification
MaxRangeWords == 1

RangeWords == {"Buy AAPL", "stop loss at 140", "target 160", "at 150", "10x leverage"}

\* quantity and position size candidates that are out of range or hold no digit
RejectedCandidates ==
    {"0 shares", "1,000,000 shares", "2,000,000 lots", ", shares",
     "5 USD", "9 dollars", "20,000,000 USD", ", USD"}

\* candidates at the limits of the ranges and inside them
AcceptedCandidates == {"1 shares", "999,999 shares", "10 USD", "10,000,000 USD", "500 USD"}

\* the sentence with the candidate after it
Attach(b, q) == IF b = "" THEN q ELSE b \o ", " \o q

RangeInputs ==
    {Str(Attach(b, q)) :
        b \in Sentences(RangeWords, MaxRangeWords), q \in RejectedCandidates \cup AcceptedCandidates}

\* the longest sentence of the excluded-word specification
MaxExcludedWords == 2

ExcludedPhrases ==
    {"stop loss at 86000", "500 USD position", "Buy the", "sell ZZZ", "ticker ABC",
     "long at 50", "MEAN at 5"}

ExcludedInputs == {Str(w) : w \in Sentences(ExcludedPhrases, MaxExcludedWords)}

\* the clauses of the transcript of the end-to-end scenario
ScenarioClauses ==
    <<"Open Long BTC USDT", "Mean Reversion Trade", "500 USD", "stop loss at 86,000",
      "take profit at 94,000 USD.">>

RECURSIVE JoinClauses(_, _)
\* the clauses numbered in S from the i-th on, in their order, joined by ", "
JoinClauses(S, i) ==
    IF i > Len(ScenarioClauses) THEN ""
    ELSE IF i \notin S THEN JoinClauses(S, i + 1)
    ELSE IF \A j \in S : j <= i THEN ScenarioClauses[i]
    ELSE ScenarioClauses[i] \o ", " \o JoinClauses(S, i + 1)

ScenarioTranscript == JoinClauses(1..Len(ScenarioClauses), 1)

\* the transcript and its parts, as written, in upper case and in lower case
ScenarioInputs ==
    UNION {{Str(t), Str(toUpperCase(t)), Str(toLowerCase(t))} :
              t \in {JoinClauses(S, 1) : S \in SUBSET (1..Len(ScenarioClauses))}}

\* the values a field takes in the trade objects of the summary specification
SummaryValues(key) ==
    CASE key = "ticker" -> {Str("AAPL")}
      [] key = "action" -> {Str("buy"), Str("sell")}
      [] key = "tradeType" -> {Str("long"), Str("short")}
      [] key = "exchange" -> {Str("Binance")}
      [] key = "timeframe" -> {Str("4h")}
      [] key = "quantity" -> {Num(100 * Scale)}
      [] key = "positionSize" -> {Num(5000 * Scale)}
      [] key = "leverage" -> {Num(10 * Scale)}
      [] key = "price" -> {Num(150 * Scale)}
      [] key = "stopLoss" -> {Num(140 * Scale)}
      [] key = "takeProfit" -> {Num(123450)}
      [] key = "breakEven" -> {Num(15025), Bool(TRUE)}
      [] key = "indicators" -> {List(<<"RSI", "MACD">>)}

SummaryKeys ==
    <<"ticker", "action", "tradeType", "exchange", "timeframe", "quantity", "positionSize",
      "leverage", "price", "stopLoss", "takeProfit", "breakEven", "indicators">>

RECURSIVE TradesFrom(_)
\* the trade objects over the keys from the i-th on, each key absent or with one of its values
TradesFrom(i) ==
    IF i > Len(SummaryKeys) THEN {<<>>}
    ELSE LET rest == TradesFrom(i + 1)
         IN  rest \cup {(SummaryKeys[i] :> v) @@ r : v \in SummaryValues(SummaryKeys[i]), r \in rest}

SummaryInputs == {Returned(r) : r \in TradesFrom(1)}


\* the longest sentence of the action specification
MaxActionWords == 2

\* cues of both directions in their forms and cases, words that only contain a cue,
\* and a cue followed by a hyphen
ActionWords ==
    {"buy", "Buying", "bought", "long", "going", "opening", "sell", "selling", "SOLD",
     "short", "close", "Closing", "belong", "shorts", "long-term"}

ActionInputs == {Str(t) : t \in Sentences(ActionWords, MaxActionWords)}

\* the longest sentence of the crypto-name specification
MaxCryptoWords == 3

\* crypto names, quote-currency words and a word between them
CryptoWords == {"Bitcoin", "Buy Solana", "USDT", "EUR", "BTC", "ETH", "for"}

CryptoInputs == {Str(t) : t \in Sentences(CryptoWords, MaxCryptoWords)}

\* the longest sentence of the break-even specification
MaxBreakEvenWords == 2

\* break-even phrases with a number, with a cue only, and with a comma in place of
\* the number
BreakEvenWords ==
    {"break even at 150", "breakeven is $1,200.50", "B E 95,000", "break even at 0",
     "move stop to break even", "moving to breakeven", "moved b e", "move to break even ,"}

\* sentences "Buy AAPL <break-even phrases>"
BreakEvenInputs ==
    {Str(IF w = "" THEN "Buy AAPL" ELSE "Buy AAPL " \o w) :
        w \in Sentences(BreakEvenWords, MaxBreakEvenWords)}

\* the most numeric fields of a trade object of the rendering specification
MaxRenderFields == 2

\* the numeric fields of a trade object and the values each takes: below 1000 with and
\* without a fraction, 1000 itself, and above 1000 with and without a fraction
RenderKeys ==
    {"quantity", "positionSize", "leverage", "price", "stopLoss", "takeProfit", "breakEven"}

RenderValues(key) ==
    CASE key = "quantity" -> {Num(50), Num(100 * Scale), Num(5000 * Scale)}
      [] key = "positionSize" -> {Num(500 * Scale), Num(5000 * Scale), Num(123456789)}
      [] key = "leverage" -> {Num(10 * Scale), Num(125 * Scale)}
      [] key = "price" -> {Num(50), Num(99999), Num(1000 * Scale), Num(120050), Num(45000 * Scale)}
      [] key = "stopLoss" -> {Num(140 * Scale), Num(92000 * Scale)}
      [] key = "takeProfit" -> {Num(16025), Num(123450)}
      [] key = "breakEven" -> {Num(0), Num(15025), Num(95000 * Scale)}

\* the numeric fields of the trade objects over a set of keys
RenderFields(keys) ==
    {r \in [keys -> UNION {RenderValues(key) : key \in keys}] :
        \A key \in keys : r[key] \in RenderValues(key)}

\* the trade objects 'buy AAPL' with one to MaxRenderFields numeric fields
RenderInputs ==
    {Returned(("ticker" :> Str("AAPL")) @@ ("action" :> Str("buy")) @@ r) :
        r \in UNION {RenderFields(keys) :
                        keys \in {K \in SUBSET RenderKeys :
                                     Cardinality(K) \in 1..MaxRenderFields}}}


\* the longest sentence of the timeframe specification
MaxTimeframeWords == 2

\* timeframe phrases of several codes, and phrases that hold no variant
TimeframeWords ==
    {"15 minutes", "5 minutes", "4 hour", "hour chart", "daily", "1m chart", "monthly",
     "15 minute", "hours"}

\* sentences "Buy AAPL <timeframe phrases>", and each variant of the list on its own
\* and followed by "chart"
TimeframeInputs ==
    {Str(IF w = "" THEN "Buy AAPL" ELSE "Buy AAPL " \o w) :
        w \in Sentences(TimeframeWords, MaxTimeframeWords)}
    \cup {Str("Buy AAPL " \o toLowerCase(TIMEFRAME_VARIANTS[i][1]) \o end) :
            i \in 1..Len(TIMEFRAME_VARIANTS), end \in {"", " chart"}}

\* the most words before the stop-loss phrase
MaxStopPriceWords == 2

StopPriceWords == {"Buy", "AAPL"}

\* the stop-loss phrasings: the mis-transcriptions, "stop loss", "stop at", "set stop at"
StopPhrasings ==
    {v \o " at" : v \in MisheardStopLoss}
        \cup {"Stop loss at", "stop at", "set stop at", "put a stop at"}

StopPriceLevels == {"140", "92000"}

\* sentences "<words> <stop-loss phrasing> N": N is the only number of the sentence
StopPriceInputs ==
    {Str(JoinWords(<<w, p, n>>)) :
        w \in Sentences(StopPriceWords, MaxStopPriceWords) \ {""},
        p \in StopPhrasings, n \in StopPriceLevels}
    \cup {Str(JoinWords(<<p, n>>)) : p \in StopPhrasings, n \in StopPriceLevels}


\* the most words before the number
MaxAmountWords == 2

AmountWords == {"Buy", "AAPL", "at"}

AmountNumbers == {"100", "500"}

AmountUnits == {"shares", "contracts", "USD", "dollars"}

\* sentences "<words> N <unit>": N is the only number of the sentence
AmountInputs ==
    {Str(JoinWords(<<w, n, u>>)) :
        w \in Sentences(AmountWords, MaxAmountWords) \ {""},
        n \in AmountNumbers, u \in AmountUnits}

-----------------------------------------------------------------------------
(* One call of extractTradeInfo *)


\* the whole call: guard, detection, validation, clean-up
Call == /\ pc = "ready"
        /\ pc' = "returned"
        /\ trade' = (IF guard(input) THEN Undefined ELSE tradeOf(input))
        /\ result' = (IF guard(input) THEN Null
                      ELSE IF trade' = Thrown THEN Thrown ELSE validate(trade'))
        /\ UNCHANGED <<input, callVars, appVars>>

\* one call of generateTradeSummary on a trade object
Summarize ==
    /\ pc = "ready"
    /\ input.t = "record"
    /\ pc' = "summarized"
    /\ result' = Str(generateTradeSummary(input.v))
    /\ UNCHANGED <<input, trade, callVars, appVars>>

-----------------------------------------------------------------------------
(* Several calls of extractTradeInfo in progress *)

\* the module-level tables, lines 9 to 134
LookupTables ==
    [EXCLUDED_WORDS |-> EXCLUDED_WORDS, CRYPTO_TOKENS |-> CRYPTO_TOKENS,
     CRYPTO_NAME_TO_TICKER |-> CRYPTO_NAME_TO_TICKER,
     SPOKEN_PAIR_VARIANTS |-> SPOKEN_PAIR_VARIANTS, EXCHANGES |-> EXCHANGES,
     INDICATORS |-> INDICATORS, STOP_LOSS_VARIANTS |-> STOP_LOSS_VARIANTS,
     TIMEFRAME_VARIANTS |-> TIMEFRAME_VARIANTS, STOCK_TICKERS |-> STOCK_TICKERS]

\* the most calls in progress
MaxCalls == 2

CallIds == 1..MaxCalls

CallTexts == {"", "Buy AAPL at 150", "sell TSLA, RSI", "daily chart"}

\* const trade = {ticker: null, ..., indicators: [], ...}
newTrade == [key \in Fields |-> IF key = "indicators" THEN List(<<>>) ELSE Null]

\* the reference of the object literal of a call when one object is shared by all calls
allocate_shared(h) == 1

\* the reference of the object literal of a call: a new object
allocate(h) == Len(h) + 1

\* the heap with the object at reference ref set
Store(h, ref, obj) == IF ref \in DOMAIN h THEN [h EXCEPT ![ref] = obj] ELSE Append(h, obj)

NoCall == [text |-> "", pc |-> "idle", trade |-> 0, result |-> 0]

\* a call enters: the guard, then the trade object literal
Begin(c, text) ==
    /\ calls[c].pc = "idle"
    /\ IF guard(Str(text))
       THEN /\ calls' = [calls EXCEPT ![c] = [NoCall EXCEPT !.text = text, !.pc = "returned"]]
            /\ heap' = heap
       ELSE /\ calls' = [calls EXCEPT ![c] = [text |-> text, pc |-> "detecting",
                                             trade |-> allocate(heap), result |-> 0]]
            /\ heap' = Store(heap, allocate(heap), newTrade)
    /\ UNCHANGED <<input, pc, trade, result, tables, appVars>>

\* the detectors of a call write the fields of its trade object
Detect(c) ==
    /\ calls[c].pc = "detecting"
    /\ calls' = [calls EXCEPT ![c].pc = "validating"]
    /\ heap' = [heap EXCEPT ![calls[c].trade] = detect(calls[c].text)]
    /\ UNCHANGED <<input, pc, trade, result, tables, appVars>>

\* validation and clean-up of a call: null, or its trade object with the empty keys deleted
Return(c) ==
    /\ calls[c].pc = "validating"
    /\ IF hasTradeInfo(heap[calls[c].trade])
       THEN /\ heap' = [heap EXCEPT ![calls[c].trade] = cleanUp(@)]
            /\ calls' = [calls EXCEPT ![c].pc = "returned", ![c].result = calls[c].trade]
       ELSE /\ heap' = heap
            /\ calls' = [calls EXCEPT ![c].pc = "returned"]
    /\ UNCHANGED <<input, pc, trade, result, tables, appVars>>

NextCalls == \E c \in CallIds : (\E text \in CallTexts : Begin(c, text)) \/ Detect(c) \/ Return(c)

-----------------------------------------------------------------------------
(* The demo cycle and the current note of the page *)

\* DEMO_TRADES of demoData.js
DEMO_TRADES ==
    <<[id |-> "crypto-btc", name |-> "Bitcoin Long",
       transcript |-> "Going long on Bitcoin at 95,000. Stop loss at 92,000, take profit at 105,000. The 4-hour chart is showing strong support with RSI bouncing from oversold. Volume increasing on the bounce.",
       trade |-> [action |-> Str("buy"), ticker |-> Str("BTC/USDT"), exchange |-> Str("Binance"),
                  price |-> Num(95000 * Scale), stopLoss |-> Num(92000 * Scale),
                  takeProfit |-> Num(105000 * Scale), timeframe |-> Str("4H"),
                  indicators |-> List(<<"RSI oversold", "Volume increasing">>),
                  rationale |-> Str("Strong support bounce on 4H with increasing volume")]],
      [id |-> "crypto-eth", name |-> "Ethereum Short",
       transcript |-> "Shorting Ethereum at 3,200. Target is 2,800 with stop at 3,400. MACD crossing bearish on the daily, and we're rejecting from resistance. Risk to reward is about 2:1.",
       trade |-> [action |-> Str("sell"), ticker |-> Str("ETH/USDT"), exchange |-> Str("Binance"),
                  price |-> Num(3200 * Scale), stopLoss |-> Num(3400 * Scale),
                  takeProfit |-> Num(2800 * Scale), timeframe |-> Str("Daily"),
                  indicators |-> List(<<"MACD bearish cross">>),
                  rationale |-> Str("Rejection from resistance with bearish MACD")]],
      [id |-> "stock-aapl", name |-> "Apple Long",
       transcript |-> "Buying 50 shares of Apple at 185. Stop loss at 180, first target at 195. The stock is breaking out of a consolidation pattern on the daily chart. EMA 20 crossing above EMA 50.",
       trade |-> [action |-> Str("buy"), ticker |-> Str("AAPL"), price |-> Num(185 * Scale),
                  stopLoss |-> Num(180 * Scale), takeProfit |-> Num(195 * Scale),
                  quantity |-> Num(50 * Scale), timeframe |-> Str("Daily"),
                  indicators |-> List(<<"EMA 20/50 cross", "Breakout">>),
                  rationale |-> Str("Consolidation breakout with bullish EMA cross")]]>>

\* showToast(text), showError(text)
Toast(text) == [kind |-> "toast", text |-> text]
Error(text) == [kind |-> "error", text |-> text]
NoMessage == [kind |-> "none", text |-> ""]

\* the most events kept in demoLog
MaxDemoEvents == 7

\* the index after a demo that does not wrap around
nextDemoIndex_noWrap(i) == IF i + 1 < Len(DEMO_TRADES) THEN i + 1 ELSE i

\* (currentDemoIndex + 1) % DEMO_TRADES.length
nextDemoIndex(i) == (i + 1) % Len(DEMO_TRADES)

\* getNextDemo(), then the page shows the demo: the body of the Try Demo handler
ShowNextDemo ==
    LET demo == DEMO_TRADES[currentDemoIndex + 1]
    IN  /\ currentDemoIndex' = nextDemoIndex(currentDemoIndex)
        /\ transcription' = demo.transcript
        /\ currentTradeInfo' = Returned(demo.trade)
        /\ demoLog' = Append(demoLog, demo.id)
        /\ UNCHANGED currentAudioBlob

\* click on the Try Demo button
TryDemo ==
    /\ Len(demoLog) < MaxDemoEvents
    /\ ShowNextDemo
    /\ UNCHANGED <<pendingDemo, input, pc, trade, result, callVars, recVars, notesVars>>

\* click on the demo button of the empty state: the button is disabled, a timeout is set
EmptyStateDemoClick ==
    /\ ~pendingDemo
    /\ pendingDemo' = TRUE
    /\ UNCHANGED <<currentDemoIndex, transcription, currentTradeInfo, currentAudioBlob, demoLog,
                   input, pc, trade, result, callVars, recVars, notesVars>>

\* the timeout of the demo button of the empty state: the demo is shown, the button enabled
EmptyStateDemoTimeout ==
    /\ pendingDemo
    /\ Len(demoLog) < MaxDemoEvents
    /\ pendingDemo' = FALSE
    /\ ShowNextDemo
    /\ UNCHANGED <<input, pc, trade, result, callVars, recVars, notesVars>>

\* click on the Clear button: the text is emptied, the demo cycle reset, the audio dropped
Clear ==
    /\ Len(demoLog) < MaxDemoEvents
    /\ transcription' = ""
    /\ currentDemoIndex' = 0
    /\ currentAudioBlob' = Null
    /\ demoLog' = Append(demoLog, "reset")
    /\ message' = Toast("Cleared")
    /\ UNCHANGED <<currentTradeInfo, pendingDemo, input, pc, trade, result, callVars, recVars,
                   storage, saves, clock>>

NextDemo == TryDemo \/ EmptyStateDemoClick \/ EmptyStateDemoTimeout \/ Clear

\* the page after loading
PageLoaded ==
    /\ currentDemoIndex = 0
    /\ transcription = ""
    /\ currentTradeInfo = Null
    /\ currentAudioBlob = Null
    /\ pendingDemo = FALSE
    /\ demoLog = <<>>

-----------------------------------------------------------------------------
(* Saved notes *)

\* savedNotes.js: MAX_SAVED_NOTES, MAX_AUDIO_SIZE
MAX_SAVED_NOTES == 10
MAX_AUDIO_SIZE == 500 * 1024

RECURSIVE trim(_)
\* String.prototype.trim on a text whose white space is spaces
trim(s) ==
    IF s = "" THEN ""
    ELSE IF charAt(s, 0) = " " THEN trim(substring(s, 1, Len(s)))
    ELSE IF charAt(s, Len(s) - 1) = " " THEN trim(substring(s, 0, Len(s) - 1))
    ELSE s

\* canSaveNote accepting a list of MAX_SAVED_NOTES notes
canSaveNote_offByOne(currentNotes) ==
    IF Len(currentNotes) > MAX_SAVED_NOTES
    THEN [valid |-> FALSE, error |-> "Maximum 10 notes reached. Delete some to save more."]
    ELSE [valid |-> TRUE, error |-> ""]

\* canSaveNote(currentNotes)
canSaveNote(currentNotes) ==
    IF Len(currentNotes) >= MAX_SAVED_NOTES
    THEN [valid |-> FALSE, error |-> "Maximum 10 notes reached. Delete some to save more."]
    ELSE [valid |-> TRUE, error |-> ""]

\* createNote({text, trade, audioData}) at the time of the clock
createNote(text, tradeInfo, audioData) ==
    [id |-> clock, timestamp |-> clock, text |-> text, trade |-> tradeInfo,
     audioData |-> audioData]

\* blobToBase64(blob): the data URL of the blob
blobToBase64(blob) == Str("data:" \o blob.name)

\* the end of saveCurrentNote: notes.unshift(newNote); saveSavedNotes(notes); toast;
\* the clock has moved on when the next note is created
FinishSave(notes, text, audioData) ==
    /\ storage' = <<createNote(text, currentTradeInfo, audioData)>> \o notes
    /\ message' = Toast("Note saved")
    /\ clock' = clock + 1

\* click on Save: saveCurrentNote up to its end or up to the await of the conversion
SaveCurrentNote ==
    LET text == trim(transcription)
        notes == storage
        validation == canSaveNote(notes)
    IN  /\ IF text = ""
           THEN /\ message' = Error("No transcription to save")
                /\ UNCHANGED <<storage, saves, clock>>
           ELSE IF ~validation.valid
           THEN /\ message' = Error(validation.error)
                /\ UNCHANGED <<storage, saves, clock>>
           ELSE IF currentAudioBlob # Null /\ currentAudioBlob.size <= MAX_AUDIO_SIZE
           THEN /\ saves' = saves \cup {[notes |-> notes, text |-> text, blob |-> currentAudioBlob]}
                /\ saves' # saves
                /\ UNCHANGED <<storage, message, clock>>
           ELSE /\ FinishSave(notes, text, Null)
                /\ UNCHANGED saves
        /\ UNCHANGED <<currentDemoIndex, transcription, currentTradeInfo, currentAudioBlob,
                       pendingDemo, demoLog, input, pc, trade, result, callVars, recVars>>

\* the conversion of a suspended save is settled, with the data or with an error that
\* is caught, and the save runs to its end
ResumeSave(save, converted) ==
    /\ save \in saves
    /\ saves' = saves \ {save}
    /\ FinishSave(save.notes, save.text, IF converted THEN blobToBase64(save.blob) ELSE Null)
    /\ UNCHANGED <<currentDemoIndex, transcription, currentTradeInfo, currentAudioBlob,
                   pendingDemo, demoLog, input, pc, trade, result, callVars, recVars>>

\* click on Delete of the note at a 0-based index: deleteSavedNote(index)
DeleteSavedNote(index) ==
    /\ index < Len(storage)
    /\ storage' = SubSeq(storage, 1, index) \o SubSeq(storage, index + 2, Len(storage))
    /\ message' = Toast("Note deleted")
    /\ UNCHANGED <<saves, clock, currentDemoIndex, transcription, currentTradeInfo,
                   currentAudioBlob, pendingDemo, demoLog, input, pc, trade, result, callVars,
                   recVars>>

\* click on Clear All, confirmed: clearAllNotes
ClearAllNotes ==
    /\ storage' = <<>>
    /\ message' = Toast("All notes cleared")
    /\ UNCHANGED <<saves, clock, currentDemoIndex, transcription, currentTradeInfo,
                   currentAudioBlob, pendingDemo, demoLog, input, pc, trade, result, callVars,
                   recVars>>

\* the first time of the clock, after the times of the notes stored before
FirstTime == MAX_SAVED_NOTES + 1

\* the most clicks on Save that are followed
MaxSaves == 2

\* the clicks on Save followed so far: the notes created and the saves suspended
SavesStarted == clock - FirstTime + Cardinality(saves)

\* the most saves suspended at a time, and the positions of the notes that are deleted
MaxSuspended == 2
DeleteIndexes == {0, 1}

NextNotes ==
    \/ (SavesStarted < MaxSaves /\ Cardinality(saves) < MaxSuspended /\ SaveCurrentNote)
    \/ \E save \in saves, converted \in BOOLEAN : ResumeSave(save, converted)
    \/ \E index \in DeleteIndexes : DeleteSavedNote(index)
    \/ ClearAllNotes

\* the notes stored by earlier sessions: k notes of a text with no trade in it, the
\* latest first
StoredBefore(k) ==
    [i \in 1..k |-> [id |-> k + 1 - i, timestamp |-> k + 1 - i, text |-> "Quiet market today",
                     trade |-> Null, audioData |-> Null]]

\* no saved note, no suspended save, no message
NotesLoaded ==
    /\ storage = <<>>
    /\ saves = {}
    /\ message = NoMessage
    /\ clock = FirstTime

-----------------------------------------------------------------------------
(* The recorder: toggle, microphone, chunks, stop and transcription *)

\* the most recorders asked for, and the most chunks kept
MaxRecorders == 2
MaxChunks == 2

RecorderIds == 1..MaxRecorders

\* what is dictated into a recorder, and extractTradeInfo of it
Dictated(r) == "Buy AAPL at 15" \o DigitString(r)
DictatedTrade(r) ==
    Returned([ticker |-> Str("AAPL"), action |-> Str("buy"), tradeType |-> Str("long"),
              price |-> Num((150 + r) * Scale)])

\* new Blob(audioChunks): the chunks, a chunk counting for one unit of size
Blob(chunks) == [name |-> "recording.webm", size |-> Len(chunks), chunks |-> chunks]

\* stopRecording(): the recorder becomes inactive at once, its stop event comes later
stopRecording ==
    /\ recorders' = [recorders EXCEPT ![mediaRecorder] = "inactive"]
    /\ UNCHANGED <<uiState, isProcessing, mediaRecorder, audioChunks, jobs>>

\* startRecording() up to the await of getUserMedia, for the next recorder
startRecording ==
    \E r \in RecorderIds :
        /\ recorders[r] = "none"
        /\ \A q \in RecorderIds : q < r => recorders[q] # "none"
        /\ recorders' = [recorders EXCEPT ![r] = "pending"]
        /\ UNCHANGED <<uiState, isProcessing, mediaRecorder, audioChunks, jobs>>

\* toggleRecording(): ignored while processing; stops the recorder that is recording,
\* starts one otherwise
toggleRecording ==
    IF isProcessing THEN UNCHANGED recVars
    ELSE IF mediaRecorder # 0 /\ recorders[mediaRecorder] = "recording"
    THEN stopRecording
    ELSE startRecording

\* click on the record button, or Space
Toggle ==
    /\ toggleRecording
    /\ UNCHANGED <<input, pc, trade, result, callVars, currentDemoIndex, transcription,
                   currentTradeInfo, currentAudioBlob, pendingDemo, demoLog, notesVars>>

\* getUserMedia is settled: with a stream, and the recorder starts, the chunks are
\* emptied and the state shown is 'recording'; or with a refusal, and an error is shown
GetUserMedia(r, granted) ==
    /\ recorders[r] = "pending"
    /\ IF granted
       THEN /\ mediaRecorder' = r
            /\ audioChunks' = <<>>
            /\ recorders' = [recorders EXCEPT ![r] = "recording"]
            /\ uiState' = "recording"
            /\ UNCHANGED message
       ELSE /\ recorders' = [recorders EXCEPT ![r] = "denied"]
            /\ message' = Error("Microphone access denied. Please allow microphone permission.")
            /\ UNCHANGED <<mediaRecorder, audioChunks, uiState>>
    /\ UNCHANGED <<isProcessing, jobs, storage, saves, clock>>
    /\ UNCHANGED <<input, pc, trade, result, callVars, currentDemoIndex, transcription,
                   currentTradeInfo, currentAudioBlob, pendingDemo, demoLog>>

\* ondataavailable: a chunk that is not empty is pushed
ondataavailable(r, size) == IF size > 0 THEN Append(audioChunks, r) ELSE audioChunks

\* a chunk of a recorder that is recording arrives
DataAvailable(r, size) ==
    /\ recorders[r] = "recording"
    /\ Len(audioChunks) < MaxChunks
    /\ audioChunks' = ondataavailable(r, size)
    /\ UNCHANGED <<uiState, isProcessing, mediaRecorder, recorders, jobs>>
    /\ UNCHANGED <<input, pc, trade, result, callVars, currentDemoIndex, transcription,
                   currentTradeInfo, currentAudioBlob, pendingDemo, demoLog, notesVars>>

\* the last chunk and the stop event of a recorder that was stopped: onstop stops the
\* tracks of its stream and, with chunks, keeps the audio and calls transcribe, which
\* runs up to its first await
OnStop(r, size) ==
    /\ recorders[r] = "inactive"
    /\ audioChunks' = ondataavailable(r, size)
    /\ recorders' = [recorders EXCEPT ![r] = "stopped"]
    /\ IF Len(audioChunks') > 0
       THEN /\ currentAudioBlob' = Blob(audioChunks')
            /\ isProcessing' = TRUE
            /\ uiState' = "processing"
            /\ jobs' = jobs \cup {[recorder |-> r, audioBlob |-> Blob(audioChunks')]}
       ELSE UNCHANGED <<currentAudioBlob, isProcessing, uiState, jobs>>
    /\ UNCHANGED <<mediaRecorder, input, pc, trade, result, callVars, currentDemoIndex,
                   transcription, currentTradeInfo, pendingDemo, demoLog, notesVars>>

\* the outcomes of a transcription: a text, no speech, an error
Outcomes == {"text", "silence", "error"}

\* transcribe after its awaits: the text is shown with the trade extracted from it,
\* or an error is shown; finally isProcessing is false and the state shown is 'idle'
TranscribeEnd(job, outcome) ==
    /\ job \in jobs
    /\ jobs' = jobs \ {job}
    /\ CASE outcome = "text" ->
              /\ transcription' = Dictated(job.audioBlob.chunks[1])
              /\ currentTradeInfo' = DictatedTrade(job.audioBlob.chunks[1])
              /\ UNCHANGED message
         [] outcome = "silence" ->
              /\ message' = Error("No speech detected. Try speaking louder or longer.")
              /\ currentTradeInfo' = Null
              /\ UNCHANGED transcription
         [] outcome = "error" ->
              /\ message' = Error("Transcription failed")
              /\ UNCHANGED <<transcription, currentTradeInfo>>
    /\ isProcessing' = FALSE
    /\ uiState' = "idle"
    /\ UNCHANGED <<mediaRecorder, recorders, audioChunks, storage, saves, clock>>
    /\ UNCHANGED <<input, pc, trade, result, callVars, currentDemoIndex, currentAudioBlob,
                   pendingDemo, demoLog>>

\* what the browser and the transcriber do
RecorderStep ==
    \/ \E r \in RecorderIds, granted \in BOOLEAN : GetUserMedia(r, granted)
    \/ \E r \in RecorderIds, size \in {0, 1} : DataAvailable(r, size)
    \/ \E r \in RecorderIds, size \in {0, 1} : OnStop(r, size)
    \/ \E job \in jobs, outcome \in Outcomes : TranscribeEnd(job, outcome)

NextRecorder == Toggle \/ RecorderStep

\* no recorder yet, nothing processing, the state shown is 'idle'
RecorderLoaded ==
    /\ uiState = "idle"
    /\ isProcessing = FALSE
    /\ mediaRecorder = 0
    /\ recorders = [r \in RecorderIds |-> "none"]
    /\ audioChunks = <<>>
    /\ jobs = {}

InitOn(inputs) ==
    /\ input \in inputs
    /\ pc = "ready"
    /\ trade = Undefined
    /\ result = Undefined
    /\ tables = LookupTables
    /\ calls = [c \in CallIds |-> NoCall]
    /\ heap = <<>>
    /\ PageLoaded
    /\ NotesLoaded
    /\ RecorderLoaded

Next == Call

Init == InitOn(Inputs)
Spec == Init /\ [][Next]_vars

InitTicker == InitOn(TickerInputs)
SpecTicker == InitTicker /\ [][Next]_vars

InitPrice == InitOn(PriceInputs)
SpecPrice == InitPrice /\ [][Next]_vars

InitStop == InitOn(StopInputs)
SpecStop == InitStop /\ [][Next]_vars

InitNumber == InitOn(NumberInputs)
SpecNumber == InitNumber /\ [][Next]_vars

InitIndicator == InitOn(IndicatorInputs)
SpecIndicator == InitIndicator /\ [][Next]_vars

InitLeverage == InitOn(LeverageInputs)
SpecLeverage == InitLeverage /\ [][Next]_vars

InitRange == InitOn(RangeInputs)
SpecRange == InitRange /\ [][Next]_vars

InitExcluded == InitOn(ExcludedInputs)
SpecExcluded == InitExcluded /\ [][Next]_vars

InitScenario == InitOn(ScenarioInputs)
SpecScenario == InitScenario /\ [][Next]_vars

InitSummary == InitOn(SummaryInputs)
NextSummary == Summarize
SpecSummary == InitSummary /\ [][NextSummary]_vars

InitCalls == InitOn({Undefined})
SpecCalls == InitCalls /\ [][NextCalls]_vars

InitDemo == InitOn({Undefined})
SpecDemo == InitDemo /\ [][NextDemo]_vars


\* a recording: the blob of its audio, of a size in bytes
Recording(size) == [name |-> "recording.webm", size |-> size]

\* extractTradeInfo("Buy AAPL at 150")
RecordedTrade ==
    Returned([ticker |-> Str("AAPL"), action |-> Str("buy"), tradeType |-> Str("long"),
              price |-> Num(150 * Scale)])

\* the page as loaded, and after a recording was transcribed: its text, the trade
\* extracted from it and its audio, below and above MAX_AUDIO_SIZE
NotePages ==
    {[transcription |-> "", currentTradeInfo |-> Null, currentAudioBlob |-> Null]} \cup
    {[transcription |-> "Buy AAPL at 150",
      currentTradeInfo |-> RecordedTrade,
      currentAudioBlob |-> Recording(size)] : size \in {100 * 1024, 600 * 1024}}

\* the numbers of notes stored by earlier sessions
StoredCounts == {0, MAX_SAVED_NOTES - 1, MAX_SAVED_NOTES}

InitNotes ==
    /\ input = Undefined
    /\ pc = "ready"
    /\ trade = Undefined
    /\ result = Undefined
    /\ tables = LookupTables
    /\ calls = [c \in CallIds |-> NoCall]
    /\ heap = <<>>
    /\ currentDemoIndex = 0
    /\ pendingDemo = FALSE
    /\ demoLog = <<>>
    /\ \E page \in NotePages :
        /\ transcription = page.transcription
        /\ currentTradeInfo = page.currentTradeInfo
        /\ currentAudioBlob = page.currentAudioBlob
    /\ \E k \in StoredCounts : storage = StoredBefore(k)
    /\ saves = {}
    /\ message = NoMessage
    /\ clock = FirstTime
    /\ RecorderLoaded

SpecNotes == InitNotes /\ [][NextNotes]_vars


InitAction == InitOn(ActionInputs)
SpecAction == InitAction /\ [][Next]_vars


InitCrypto == InitOn(CryptoInputs)
SpecCrypto == InitCrypto /\ [][Next]_vars


InitBreakEven == InitOn(BreakEvenInputs)
SpecBreakEven == InitBreakEven /\ [][Next]_vars


InitRender == InitOn(RenderInputs)
SpecRender == InitRender /\ [][NextSummary]_vars


InitTimeframe == InitOn(TimeframeInputs)
SpecTimeframe == InitTimeframe /\ [][Next]_vars


InitRecorder == InitOn({Undefined})
SpecRecorder == InitRecorder /\ [][NextRecorder]_vars


\* the browser settles every getUserMedia and delivers the stop event of every recorder
\* that was stopped, and every transcription ends
RecorderFairness ==
    /\ \A r \in RecorderIds :
        /\ WF_vars(\E granted \in BOOLEAN : GetUserMedia(r, granted))
        /\ WF_vars(\E size \in {0, 1} : OnStop(r, size))
    /\ WF_vars(\E job \in jobs, outcome \in Outcomes : TranscribeEnd(job, outcome))

SpecRecorderLive == InitRecorder /\ [][NextRecorder]_vars /\ RecorderFairness


\* the most clicks on Try Demo and Clear of the page specification
MaxPageEvents == 2

\* the page: recordings, transcriptions, Try Demo and Clear
NextPage ==
    \/ Toggle
    \/ RecorderStep
    \/ (Len(demoLog) < MaxPageEvents /\ TryDemo)
    \/ (Len(demoLog) < MaxPageEvents /\ Clear)

InitPage == InitOn({Undefined})
SpecPage == InitPage /\ [][NextPage]_vars


\* the stop loss and the price of sentences with one number
InitStopPrice == InitOn(StopPriceInputs)
SpecStopPrice == InitStopPrice /\ [][Next]_vars


\* the price, the quantity and the position size of sentences with one number
InitAmount == InitOn(AmountInputs)
SpecAmount == InitAmount /\ [][Next]_vars

-----------------------------------------------------------------------------
(* Properties of one call *)

SevenFields == {"ticker", "action", "price", "quantity", "stopLoss", "takeProfit", "positionSize"}

IsRecord == pc = "returned" /\ result.t = "record"

\* C1: a call on a non-empty string returns null if and only if none of ticker,
\* action, price, quantity, stopLoss, takeProfit, positionSize was set by its detector
ValidityGate ==
    (pc = "returned" /\ input.t = "str" /\ input.v # "")
        => (result = Null <=> \A f \in SevenFields : trade[f] = Null)

NonStringIsNull ==
    pc = "returned" =>
        /\ result # Thrown
        /\ (input.t # "str" \/ input.v = "") => result = Null

\* null was returned for a truthy argument that is not a string
NonStringIsNullWitness ==
    pc = "returned" /\ input \in {Obj, Bool(TRUE), Num(42 * Scale)} /\ result = Null

Called == pc = "returned" /\ input.t = "str" /\ input.v # ""

\* C5: the ticker is the one of the first tier that yields one, in the order
\* spoken pair, crypto name, symbolic pair, stock, generic; a later tier never
\* overrides it, and a text naming a stock and a crypto name yields the crypto ticker
TickerCascade ==
    Called =>
        LET U == toUpperCase(input.v)
            tiers == <<spokenPairTicker(U), cryptoNameTicker(U), cryptoPairTicker(U),
                       stockTicker(U), genericTicker(U)>>
        IN  /\ \A k \in 1..5 :
                 (tiers[k] # Null /\ \A j \in 1..(k - 1) : tiers[j] = Null)
                     => trade.ticker = tiers[k]
            /\ (\A k \in 1..5 : tiers[k] = Null) => trade.ticker = Null
            /\ (includes(U, "TSLA") /\ includes(U, "ETHEREUM") /\ ~includes(U, "BITCOIN TETHER"))
                 => trade.ticker \in {Str("ETH"), Str("ETH/USDT")}

\* a stock symbol mentioned before a crypto name, and the crypto ticker returned
TickerCascadeWitness ==
    /\ IsRecord
    /\ input.v = "TSLA Ethereum"
    /\ stockTicker(toUpperCase(input.v)) = Str("TSLA")
    /\ result.v.ticker = Str("ETH")

\* the leftmost candidate of price pattern i in the upper-cased text U
PriceCandidate(U, i) == exec(pricePatterns[i], U)

\* the candidate of pattern i has a stop-loss, target or take-profit keyword in the
\* 20 characters before it
KeywordBefore(U, i) ==
    LET idx == PriceCandidate(U, i).index
    IN  test(priceExcludeBefore, substring(U, IF idx > 20 THEN idx - 20 ELSE 0, idx))

\* pattern i yields no price: no candidate, a keyword before it, or no number
PriceRejected(U, i) ==
    \/ ~PriceCandidate(U, i).ok
    \/ KeywordBefore(U, i)
    \/ parseNumber(group(PriceCandidate(U, i), U, 1)) = Null

\* C6: the price is the number of the first price pattern whose candidate has no
\* stop-loss, target or take-profit keyword in the 20 characters before it; a
\* candidate with such a keyword is rejected and the next pattern is tried;
\* 'Buy AAPL stop loss at $140' gives stopLoss 140 and no price
PriceExclusionWindow ==
    Called =>
        LET U == toUpperCase(input.v)
        IN  /\ trade.price # Null =>
                 \E i \in 1..Len(pricePatterns) :
                     /\ ~PriceRejected(U, i)
                     /\ trade.price = parseNumber(group(PriceCandidate(U, i), U, 1))
                     /\ \A j \in 1..(i - 1) : PriceRejected(U, j)
            /\ trade.price = Null => \A i \in 1..Len(pricePatterns) : PriceRejected(U, i)
            /\ input.v = "Buy AAPL stop loss at $140" =>
                 /\ IsRecord
                 /\ "price" \notin DOMAIN result.v
                 /\ result.v.stopLoss = Num(140 * Scale)

\* the stop loss of the example was a price candidate, and was rejected
PriceExclusionWindowWitness ==
    /\ IsRecord
    /\ input.v = "Buy AAPL stop loss at $140"
    /\ PriceCandidate(toUpperCase(input.v), 1).ok
    /\ KeywordBefore(toUpperCase(input.v), 1)
    /\ "price" \notin DOMAIN result.v
    /\ result.v.stopLoss = Num(140 * Scale)

\* a first candidate rejected for its keyword and the price taken from the next pattern
PriceNextPatternWitness ==
    /\ IsRecord
    /\ PriceCandidate(toUpperCase(input.v), 1).ok
    /\ KeywordBefore(toUpperCase(input.v), 1)
    /\ "price" \in DOMAIN result.v

\* field f of what a call returned, null when there is no record or no such field
FieldOf(res, f) == IF res.t = "record" /\ f \in DOMAIN res.v THEN res.v[f] ELSE Null

\* the text with every "V at" replaced by "stop loss at"
SpokenCorrectly(text, v) == replaceAll(Lit(v \o " at "), text, "stop loss at ")

\* C7: for each mis-transcription V of "stop loss", the stopLoss of a text containing
\* "V at N" is the stopLoss of the same text with V replaced by "stop loss"
StopLossCorrection ==
    Called =>
        \A v \in MisheardStopLoss :
            includes(input.v, v \o " at ")
                => FieldOf(result, "stopLoss")
                     = FieldOf(extractTradeInfo(Str(SpokenCorrectly(input.v, v))), "stopLoss")

NumericFields == {"price", "stopLoss", "takeProfit", "breakEven", "quantity", "positionSize"}

\* the text with the thousands separators (a comma between two digits) left out
RECURSIVE StripCommasFrom(_, _)
StripCommasFrom(text, i) ==
    IF i >= Len(text) THEN ""
    ELSE IF /\ charAt(text, i) = ","
            /\ i > 0 /\ charAt(text, i - 1) \in DigitSet
            /\ charAt(text, i + 1) \in DigitSet
         THEN StripCommasFrom(text, i + 1)
         ELSE charAt(text, i) \o StripCommasFrom(text, i + 1)

StripCommas(text) == StripCommasFrom(text, 0)

HasDigit(text) == \E i \in 0..(Len(text) - 1) : charAt(text, i) \in DigitSet

\* C8: every numeric field of a text whose number is written with thousands separators
\* has the value it has when the number is written without them; and a numeric text that
\* holds no digit leaves every numeric field absent, in particular never 0
CommaGroupedNumbers ==
    Called =>
        /\ \A f \in NumericFields :
               FieldOf(result, f) = FieldOf(extractTradeInfo(Str(StripCommas(input.v))), f)
        /\ ~HasDigit(input.v) => \A f \in NumericFields : FieldOf(result, f) = Null

\* a number with thousands separators has been parsed into a field
CommaGroupedNumbersWitness ==
    /\ Called
    /\ StripCommas(input.v) # input.v
    /\ FieldOf(result, "stopLoss") = Num(86000 * Scale)

\* a numeric text without a digit has been matched and the field left absent
UnparsedNumberWitness ==
    /\ Called
    /\ input.v = "Buy stop loss at ,"
    /\ result.t = "record"
    /\ "stopLoss" \notin DOMAIN result.v

\* the indicators list of what a call returned, empty when there is none
IndicatorsOf(res) ==
    IF FieldOf(res, "indicators") = Null THEN <<>> ELSE FieldOf(res, "indicators").v

\* the mis-transcriptions of MACD, and the names that are not mis-transcriptions
MisheardIndicators == {INDICATORS[i] : i \in {j \in 1..Len(INDICATORS) : INDICATOR_CORRECTIONS(INDICATORS[j]) # INDICATORS[j]}}
CanonicalIndicators == {INDICATORS[i] : i \in 1..Len(INDICATORS)} \ MisheardIndicators

\* C9: every element of the indicators list is a canonical name, each mis-transcription
\* of MACD found in the text is reported as MACD, and the list has no duplicates
IndicatorNormalization ==
    Called =>
        LET q == IndicatorsOf(result)
            U == toUpperCase(input.v)
        IN  /\ \A j \in 1..Len(q) : q[j] \in CanonicalIndicators
            /\ \A m \in MisheardIndicators : test(indicatorPattern(m), U) => Member(q, "MACD")
            /\ \A j, k \in 1..Len(q) : q[j] = q[k] => j = k

\* the vocabulary entries found in the text that are reported under a name
EntriesOf(name, U) ==
    {i \in 1..Len(INDICATORS) :
        normalizedIndicator(INDICATORS[i]) = name /\ test(indicatorPattern(INDICATORS[i]), U)}

Least(S) == CHOOSE x \in S : \A y \in S : x <= y

\* where in the text a name is first mentioned
FirstMention(name, U) ==
    Least({exec(indicatorPattern(INDICATORS[i]), U).index : i \in EntriesOf(name, U)})

\* C10 as stated: the indicators list is in order of first mention in the transcript
IndicatorMentionOrder ==
    Called =>
        LET q == IndicatorsOf(result)
            U == toUpperCase(input.v)
        IN  \A j, k \in 1..Len(q) : j < k => FirstMention(q[j], U) < FirstMention(q[k], U)

\* C10: the indicators list is in the order of the indicator vocabulary: a name comes
\* before another when its first vocabulary entry found in the text comes first in INDICATORS
IndicatorVocabularyOrder ==
    Called =>
        LET q == IndicatorsOf(result)
            U == toUpperCase(input.v)
        IN  \A j, k \in 1..Len(q) : j < k => Least(EntriesOf(q[j], U)) < Least(EntriesOf(q[k], U))

\* two indicators mentioned against the order of the vocabulary are listed in its order
IndicatorVocabularyOrderWitness ==
    /\ Called
    /\ input.v = "Buy EMA RSI"
    /\ IndicatorsOf(result) = <<"RSI", "EMA">>

\* the number of the leftmost match of leverage pattern i in U, NaN without a match
LeverageCandidate(U, i) ==
    LET match == exec(leveragePatterns[i], U)
    IN  IF match.ok THEN parseInt(group(match, U, 1)) ELSE NaN

LeverageInRange(lev) == lev.t = "num" /\ lev.v >= 1 * Scale /\ lev.v <= 125 * Scale

\* C11: leverage is the number of the first of the four patterns, in their order, whose
\* match lies in [1,125]; a pattern whose match lies outside is passed over; and a
\* leverage in a returned record is an integer from 1 to 125
LeverageCascade ==
    Called =>
        LET U == toUpperCase(input.v)
        IN  /\ \A k \in 1..4 :
                 (/\ LeverageInRange(LeverageCandidate(U, k))
                  /\ \A j \in 1..(k - 1) : ~LeverageInRange(LeverageCandidate(U, j)))
                     => FieldOf(result, "leverage") = LeverageCandidate(U, k)
            /\ (\A k \in 1..4 : ~LeverageInRange(LeverageCandidate(U, k)))
                 => FieldOf(result, "leverage") = Null
            /\ FieldOf(result, "leverage") # Null
                 => /\ LeverageInRange(FieldOf(result, "leverage"))
                    /\ FieldOf(result, "leverage").v % Scale = 0

\* the first pattern matched 200, out of range, and the second pattern set the leverage
LeverageCascadeWitness ==
    /\ Called
    /\ input.v = "Buy 200x leverage leverage 5"
    /\ LeverageCandidate(toUpperCase(input.v), 1) = Num(200 * Scale)
    /\ FieldOf(result, "leverage") = Num(5 * Scale)

\* C12: a quantity in a returned record satisfies 0 < quantity < 1,000,000 and a position
\* size 10 <= positionSize <= 10,000,000; and a candidate that is out of range or does not
\* parse leaves its field absent, the call returning what it returns without the candidate
RangeLimits ==
    Called =>
        /\ FieldOf(result, "quantity") # Null
             => /\ FieldOf(result, "quantity").v > 0
                /\ FieldOf(result, "quantity").v < 1000000 * Scale
        /\ FieldOf(result, "positionSize") # Null
             => /\ FieldOf(result, "positionSize").v >= 10 * Scale
                /\ FieldOf(result, "positionSize").v <= 10000000 * Scale
        /\ \A b \in Sentences(RangeWords, MaxRangeWords), q \in RejectedCandidates :
               input.v = Attach(b, q)
                   => /\ result # Thrown
                      /\ FieldOf(result, "quantity") = Null
                      /\ FieldOf(result, "positionSize") = Null
                      /\ \A f \in Fields :
                             FieldOf(result, f) = FieldOf(extractTradeInfo(Str(b)), f)

\* an out-of-range quantity after a trade: the record holds the trade and no quantity
RangeLimitsWitness ==
    /\ IsRecord
    /\ input.v = "Buy AAPL, 2,000,000 lots"
    /\ DOMAIN result.v = {"ticker", "action", "tradeType"}

\* the word captured by the leftmost match of context pattern k in U, "" without a match
GenericCandidate(U, k) ==
    LET match == exec(contextPatterns[k], U)
    IN  IF ~match.ok THEN ""
        ELSE IF group(match, U, 2) # "" THEN group(match, U, 2) ELSE group(match, U, 1)

\* C13: the ticker of a returned record is never an excluded word; in the generic tier
\* a candidate that is an excluded word is rejected, and a text whose candidates are all
\* excluded words ('stop loss at 86000', '500 USD position') has no ticker
TickerNotExcluded ==
    Called =>
        LET U == toUpperCase(input.v)
            generic == /\ spokenPairTicker(U) = Null /\ cryptoNameTicker(U) = Null
                       /\ cryptoPairTicker(U) = Null /\ stockTicker(U) = Null
        IN  /\ FieldOf(result, "ticker") # Null => FieldOf(result, "ticker").v \notin EXCLUDED_WORDS
            /\ (generic /\ \A k \in 1..3 : GenericCandidate(U, k) \in EXCLUDED_WORDS \cup {""})
                 => FieldOf(result, "ticker") = Null
            /\ \A k \in 1..3 :
                 (/\ generic
                  /\ GenericCandidate(U, k) \notin EXCLUDED_WORDS \cup {""}
                  /\ \A j \in 1..(k - 1) : GenericCandidate(U, j) \in EXCLUDED_WORDS \cup {""})
                     => FieldOf(result, "ticker") = Str(GenericCandidate(U, k))
            /\ input.v \in {"stop loss at 86000", "500 USD position"}
                 => IsRecord /\ "ticker" \notin DOMAIN result.v

\* the candidate LOSS of 'stop loss at 86000' was rejected: a record without a ticker
TickerNotExcludedWitness ==
    /\ IsRecord
    /\ input.v = "stop loss at 86000"
    /\ GenericCandidate(toUpperCase(input.v), 2) = "LOSS"
    /\ "ticker" \notin DOMAIN result.v

\* C14: the transcript 'Open Long BTC USDT, Mean Reversion Trade, 500 USD, stop loss at
\* 86,000, take profit at 94,000 USD.' returns exactly the record with ticker BTC/USDT,
\* action buy, tradeType long, positionSize 500, stopLoss 86000 and takeProfit 94000
EndToEndScenario ==
    (Called /\ input.v = ScenarioTranscript)
        => result = Returned([ticker |-> Str("BTC/USDT"), action |-> Str("buy"),
                              tradeType |-> Str("long"), positionSize |-> Num(500 * Scale),
                              stopLoss |-> Num(86000 * Scale), takeProfit |-> Num(94000 * Scale)])

\* the call on the transcript has returned a record
EndToEndScenarioWitness ==
    /\ IsRecord
    /\ input.v = "Open Long BTC USDT, Mean Reversion Trade, 500 USD, stop loss at 86,000, take profit at 94,000 USD."
    /\ result.v.ticker = Str("BTC/USDT")

Summarized == pc = "summarized"

NonEmpty(x) == x # ""

\* the text of a field of the trade object r, "" when r does not hold the field
TextOf(r, key, before, after, number) ==
    IF key \notin DOMAIN r THEN ""
    ELSE before \o (IF number THEN formatNumber(r[key].v) ELSE r[key].v) \o after

\* the direction part: the tradeType word with action, ticker and tradeType; the action
\* word without tradeType or without ticker; 'Trade TICKER' with the ticker only
DirectionOf(r) ==
    LET has(key) == key \in DOMAIN r
        actionWord == IF has("action") /\ r["action"].v = "buy" THEN "Buy" ELSE "Sell"
        typeWord == IF has("tradeType") /\ r["tradeType"].v = "long" THEN "Long" ELSE "Short"
    IN  IF has("action") /\ has("ticker") /\ has("tradeType") THEN typeWord \o " " \o r["ticker"].v
        ELSE IF has("action") /\ has("ticker") THEN actionWord \o " " \o r["ticker"].v
        ELSE IF has("action") THEN actionWord
        ELSE IF has("ticker") THEN "Trade " \o r["ticker"].v
        ELSE ""

\* the extras in their order, separated by bullets, "" when there is none
ExtrasOf(r) ==
    LET items == SelectSeq(
            <<TextOf(r, "stopLoss", "Stop loss: $", "", TRUE),
              TextOf(r, "takeProfit", "Target: $", "", TRUE),
              IF "breakEven" \in DOMAIN r /\ r["breakEven"] = Bool(TRUE)
                  THEN "Move to break even"
                  ELSE TextOf(r, "breakEven", "Break even: $", "", TRUE),
              IF "indicators" \in DOMAIN r
                  THEN "Indicators: " \o join(r["indicators"].v, ", ") ELSE "">>,
            NonEmpty)
    IN  IF items = <<>> THEN "" ELSE Bullet \o " " \o join(items, " " \o Bullet \o " ")

\* C15: the summary is the texts of the present fields in the order direction and ticker,
\* exchange, timeframe, quantity, position size, leverage, entry price, extras, joined
\* by single spaces, an absent field giving no text and no separator; the direction part
\* follows the rule of DirectionOf; {action: 'buy', ticker: 'AAPL', quantity: 100,
\* price: 150} gives 'Buy AAPL 100 shares at $150.00'
SummaryLayout ==
    Summarized =>
        LET r == input.v
        IN  /\ result.v = join(SelectSeq(
                    <<DirectionOf(r),
                      TextOf(r, "exchange", "on ", "", FALSE),
                      TextOf(r, "timeframe", "(", ")", FALSE),
                      IF "quantity" \in DOMAIN r
                          THEN NumberToString(r["quantity"].v) \o " shares" ELSE "",
                      TextOf(r, "positionSize", "$", " position", TRUE),
                      IF "leverage" \in DOMAIN r
                          THEN NumberToString(r["leverage"].v) \o "x" ELSE "",
                      TextOf(r, "price", "at $", "", TRUE),
                      ExtrasOf(r)>>, NonEmpty), " ")
            /\ (/\ DOMAIN r = {"action", "ticker", "quantity", "price"}
                /\ r["action"] = Str("buy"))
                 => result.v = "Buy AAPL 100 shares at $150.00"

\* every part of the summary is present, in the fixed order
SummaryLayoutWitness ==
    /\ Summarized
    /\ result.v = "Long AAPL on Binance (4h) 100 shares $5,000 position 10x at $150.00 * Stop loss: $140.00 * Target: $1,234.5 * Move to break even * Indicators: RSI, MACD"

\* what call c returned: null, or the trade object behind the returned reference
ReturnedBy(c) == IF calls[c].result = 0 THEN Null ELSE Returned(heap[calls[c].result])

DemosSinceReset(log, i) ==
    LET resets == {j \in 1..(i - 1) : log[j] = "reset"}
        from == IF resets = {} THEN 0 ELSE CHOOSE j \in resets : \A k \in resets : k <= j
    IN  i - 1 - from

\* C17: from a reset state the k-th call of getNextDemo returns DEMO_TRADES[(k-1) mod 3],
\* cycle after cycle, and the first call after a reset returns DEMO_TRADES[0]
DemoCycle ==
    \A i \in 1..Len(demoLog) :
        demoLog[i] # "reset"
            => demoLog[i] = DEMO_TRADES[(DemosSinceReset(demoLog, i) % 3) + 1].id

\* a full cycle and the first demo again, then a reset in the middle of a cycle and the
\* first demo again
DemoCycleWitness ==
    demoLog = <<"crypto-btc", "crypto-eth", "stock-aapl", "crypto-btc", "crypto-eth", "reset",
                "crypto-btc">>

-----------------------------------------------------------------------------
(* Properties of the saved notes *)

\* a click on Save with a text to save while n notes are stored
SaveAttemptAt(n) == SaveCurrentNote /\ trim(transcription) # "" /\ Len(storage) = n

\* C18: canSaveNote is valid exactly when the list has fewer than 10 notes; whatever
\* the saves, deletions and clearings, the stored list never holds more than 10
\* notes; and a save attempted while 10 notes are stored leaves the stored list
\* unchanged and reports the error 'Maximum 10 notes reached...'.
SavedNotesLimit ==
    /\ [](/\ canSaveNote(storage).valid <=> Len(storage) < 10
          /\ \A save \in saves : canSaveNote(save.notes).valid <=> Len(save.notes) < 10
          /\ Len(storage) <= 10)
    /\ [][SaveAttemptAt(10) =>
            /\ storage' = storage
            /\ message' = Error("Maximum 10 notes reached. Delete some to save more.")]_vars

\* a save was refused at 10 stored notes, after a save that was suspended at 9 notes had
\* stored the tenth
SavedNotesLimitWitness ==
    /\ Len(storage) = 10
    /\ storage[1].id >= FirstTime
    /\ storage[1].audioData # Null
    /\ message = Error("Maximum 10 notes reached. Delete some to save more.")

-----------------------------------------------------------------------------
(* Properties of the action and of the crypto-name ticker *)

BuyCues == {"BUY", "BUYING", "BOUGHT", "LONG", "GOING LONG", "OPEN LONG", "OPENING LONG"}
SellCues ==
    {"SELL", "SELLING", "SOLD", "SHORT", "GOING SHORT", "OPEN SHORT", "OPENING SHORT",
     "CLOSE", "CLOSING"}

\* the cue occurs in the text with no letter, digit or underscore next to it
OccursAsWord(cue, text) ==
    \E i \in 0..(Len(text) - Len(cue)) :
        /\ substring(text, i, i + Len(cue)) = cue
        /\ i = 0 \/ charAt(text, i - 1) \notin WordChars
        /\ i + Len(cue) = Len(text) \/ charAt(text, i + Len(cue)) \notin WordChars

HasCue(cues, text) == \E cue \in cues : OccursAsWord(cue, toUpperCase(text))

\* C19: the action is 'buy' if a buy cue occurs as a whole word, wherever sell cues
\* occur; 'sell' if no buy cue and a sell cue occurs; and absent otherwise
ActionPriority ==
    Called =>
        FieldOf(result, "action") =
            IF HasCue(BuyCues, input.v) THEN Str("buy")
            ELSE IF HasCue(SellCues, input.v) THEN Str("sell")
            ELSE Null

\* a sell cue came first and a buy cue second, and the action is 'buy'
ActionPriorityWitness ==
    /\ Called
    /\ input.v = "SOLD long"
    /\ HasCue(SellCues, input.v)
    /\ FieldOf(result, "action") = Str("buy")

QuoteWords == {"USDT", "USDC", "USD", "BUSD", "EUR", "BTC", "ETH"}

\* the entries of CRYPTO_NAME_TO_TICKER whose name occurs as a word of the text
NamesFound(text) ==
    {i \in 1..Len(CRYPTO_NAME_TO_TICKER) : OccursAsWord(CRYPTO_NAME_TO_TICKER[i][1], text)}

\* C20: when no spoken pair decides and a known crypto name is found, the ticker is
\* TICKER/QUOTE for a quote word (USDT, USDC, USD, BUSD, EUR, BTC, ETH) that directly
\* follows the name; failing that, TICKER/QUOTE for one of those quote words occurring
\* elsewhere in the text; failing that, the bare TICKER
CryptoNameQuote ==
    LET U == toUpperCase(input.v)
    IN  (Called /\ spokenPairTicker(U) = Null /\ NamesFound(U) # {}) =>
            LET first == CHOOSE i \in NamesFound(U) : \A j \in NamesFound(U) : i <= j
                name == CRYPTO_NAME_TO_TICKER[first][1]
                ticker == CRYPTO_NAME_TO_TICKER[first][2]
                attached == {q \in QuoteWords : OccursAsWord(name \o " " \o q, U)}
                elsewhere == {q \in QuoteWords : OccursAsWord(q, U)}
            IN  IF attached # {}
                THEN \E q \in attached : FieldOf(result, "ticker") = Str(ticker \o "/" \o q)
                ELSE IF elsewhere # {}
                THEN \E q \in elsewhere : FieldOf(result, "ticker") = Str(ticker \o "/" \o q)
                ELSE FieldOf(result, "ticker") = Str(ticker)

-----------------------------------------------------------------------------
(* Properties of the break even, the timeframe and the numbers of the summary *)

\* what break-even pattern k captures in the text: "" when it does not match or
\* captures nothing
BreakEvenCapture(text, k) == group(exec(breakEvenPatterns[k], text), text, 1)

\* the numeric pattern matched with a number that parses
NumericBreakEven(text) ==
    /\ exec(breakEvenPatterns[1], text).ok
    /\ parseNumber(BreakEvenCapture(text, 1)) # Null

\* C21: when the numeric pattern matches with a number that parses, breakEven is that
\* number; when it does not and the cue-only pattern matches, breakEven is true;
\* and the breakEven of a returned record is a number or true
BreakEvenOrder ==
    Called =>
        LET U == toUpperCase(input.v)
        IN  /\ NumericBreakEven(U)
                 => FieldOf(result, "breakEven") = parseNumber(BreakEvenCapture(U, 1))
            /\ (~NumericBreakEven(U) /\ exec(breakEvenPatterns[2], U).ok)
                 => FieldOf(result, "breakEven") = Bool(TRUE)
            /\ (~NumericBreakEven(U) /\ ~exec(breakEvenPatterns[2], U).ok)
                 => FieldOf(result, "breakEven") = Null
            /\ FieldOf(result, "breakEven") # Null
                 => \/ FieldOf(result, "breakEven").t = "num"
                    \/ FieldOf(result, "breakEven") = Bool(TRUE)

\* the cue came first and the number after it, and breakEven is the number
BreakEvenOrderWitness ==
    /\ Called
    /\ input.v = "Buy AAPL move stop to break even break even at 150"
    /\ exec(breakEvenPatterns[2], toUpperCase(input.v)).ok
    /\ FieldOf(result, "breakEven") = Num(150 * Scale)

\* the two digits of the hundredths of a number
TwoDecimals(h) == Digit((h % Scale) \div 10) \o Digit(h % 10)

\* a number with thousands separators, with exactly two decimals below 1000 and with
\* the decimals it has, if any, from 1000 on
WithSeparators(h) ==
    IF h < 1000 * Scale
    THEN GroupThousands(h \div Scale) \o "." \o TwoDecimals(h)
    ELSE GroupThousands(h \div Scale) \o Fraction(h)

\* a number as its plain digits: no separator, and only the decimals it has
PlainDigits(h) == DigitString(h \div Scale) \o Fraction(h)

\* the summary holds the part, between spaces or the ends of the text
HasPart(summary, part) == includes(" " \o summary \o " ", " " \o part \o " ")

\* the part of a numeric field of the summary, given how its number is rendered
NumberPart(key, number) ==
    CASE key = "quantity" -> number \o " shares"
      [] key = "positionSize" -> "$" \o number \o " position"
      [] key = "leverage" -> number \o "x"
      [] key = "price" -> "at $" \o number
      [] key = "stopLoss" -> "Stop loss: $" \o number
      [] key = "takeProfit" -> "Target: $" \o number
      [] key = "breakEven" -> "Break even: $" \o number

\* the numeric fields of a trade object that the summary shows: the non-zero ones,
\* and a numeric break even
ShownNumbers(r) ==
    {key \in RenderKeys \cap DOMAIN r : r[key].t = "num" /\ (r[key].v # 0 \/ key = "breakEven")}

\* C22, as stated: every number of the summary, quantity and leverage included, is
\* rendered with thousands separators, with two decimals below 1000
AllNumbersSeparated ==
    Summarized =>
        \A key \in ShownNumbers(input.v) :
            HasPart(result.v, NumberPart(key, WithSeparators(input.v[key].v)))

\* C22: position size, entry price, stop loss, target and numeric break even are rendered
\* with thousands separators, with exactly two decimals below 1000 and no forced decimals
\* from 1000 on; quantity and leverage are rendered as plain digits
MoneyNumbersSeparated ==
    Summarized =>
        \A key \in ShownNumbers(input.v) :
            HasPart(result.v,
                    NumberPart(key, IF key \in {"quantity", "leverage"}
                                    THEN PlainDigits(input.v[key].v)
                                    ELSE WithSeparators(input.v[key].v)))

\* a quantity of 5000 rendered without separator next to a price of 1,200.5
MoneyNumbersSeparatedWitness ==
    /\ Summarized
    /\ "quantity" \in DOMAIN input.v /\ input.v["quantity"] = Num(5000 * Scale)
    /\ "price" \in DOMAIN input.v /\ input.v["price"] = Num(120050)
    /\ result.v = "Buy AAPL 5000 shares at $1,200.5"

TimeframeCodes == {"1m", "5m", "15m", "1h", "4h", "1D", "1W", "1M"}

\* the positions in the list of the variants that occur in the text
VariantsIn(text) ==
    {i \in 1..Len(TIMEFRAME_VARIANTS) : includes(text, TIMEFRAME_VARIANTS[i][1])}

\* C23: the timeframe is the code of the first variant of the list that occurs in the
\* upper-cased text, and absent when none occurs; a text made of one variant of the list
\* gets the code of that variant, whatever shorter variants it contains; and a timeframe
\* is one of 1m, 5m, 15m, 1h, 4h, 1D, 1W, 1M
TimeframeFirstVariant ==
    Called =>
        LET U == toUpperCase(input.v)
            found == VariantsIn(U)
            timeframe == FieldOf(result, "timeframe")
        IN  /\ found = {} => timeframe = Null
            /\ found # {} =>
                 timeframe = Str(TIMEFRAME_VARIANTS[CHOOSE i \in found : \A j \in found : i <= j][2])
            /\ \A i \in 1..Len(TIMEFRAME_VARIANTS) :
                 U = "BUY AAPL " \o TIMEFRAME_VARIANTS[i][1]
                     => timeframe = Str(TIMEFRAME_VARIANTS[i][2])
            /\ timeframe # Null => timeframe.v \in TimeframeCodes

\* '15 minutes' holds the variant '5 MINUTES' too, and the timeframe is 15m
TimeframeFirstVariantWitness ==
    /\ Called
    /\ input.v = "Buy AAPL 15 minutes"
    /\ includes(toUpperCase(input.v), "5 MINUTES")
    /\ FieldOf(result, "timeframe") = Str("15m")

-----------------------------------------------------------------------------
(* Properties of the recorder and of the current note *)

\* the changes of the state shown that the cycle idle, recording, processing allows
CycleSteps ==
    {<<"idle", "recording">>, <<"recording", "processing">>, <<"processing", "idle">>}

\* some transcription ends in this step
SomeTranscribeEnd == \E job \in jobs, outcome \in Outcomes : TranscribeEnd(job, outcome)

\* C24: the state shown changes only from idle to recording, from recording to
\* processing and from processing to idle; a toggle while a transcription is processing
\* changes nothing; and every transcription ends with isProcessing false and the state
\* shown idle, whatever its outcome
RecorderCycle ==
    /\ [][uiState' # uiState => <<uiState, uiState'>> \in CycleSteps]_vars
    /\ [][(Toggle /\ isProcessing) => UNCHANGED vars]_vars
    /\ [][SomeTranscribeEnd => (isProcessing' = FALSE /\ uiState' = "idle")]_vars

\* the recorders that are recording, their microphone streams open
NowRecording == {r \in RecorderIds : recorders[r] = "recording"}

\* C28: at most one recorder is recording at any time, and a recorder that is
\* recording is the one the page refers to, so that a toggle can stop it and its stream
OneRecordingAtATime ==
    /\ Cardinality(NowRecording) <= 1
    /\ \A r \in NowRecording : mediaRecorder = r

\* C29: whenever a recorder was stopped, the state shown is eventually idle
StoppedReturnsToIdle ==
    \A r \in RecorderIds : (recorders[r] = "inactive") ~> (uiState = "idle")

\* the current note is empty
NoteEmpty == transcription = "" /\ currentTradeInfo = Null /\ currentAudioBlob = Null

\* the current note is the demo: its transcript and trade, and no audio
NoteOfDemo(demo) ==
    /\ transcription = demo.transcript
    /\ currentTradeInfo = Returned(demo.trade)
    /\ currentAudioBlob = Null

\* the current note is recording r: its text, the trade extracted from it, its audio
NoteOfRecording(r) ==
    /\ transcription = Dictated(r)
    /\ currentTradeInfo = DictatedTrade(r)
    /\ currentAudioBlob # Null
    /\ \A k \in 1..Len(currentAudioBlob.chunks) : currentAudioBlob.chunks[k] = r

\* C30: when no transcription is running, the transcript, the trade info and the audio
\* of the current note are those of one recording or of one demo, or the note is empty;
\* in particular no trade info is left once the transcript was cleared
CurrentNoteConsistent ==
    (~isProcessing /\ jobs = {}) =>
        \/ NoteEmpty
        \/ \E i \in 1..Len(DEMO_TRADES) : NoteOfDemo(DEMO_TRADES[i])
        \/ \E r \in RecorderIds : NoteOfRecording(r)

-----------------------------------------------------------------------------
(* Properties of the saves that overlap *)

\* the ids of the notes of a list
NoteIds(notes) == {notes[i].id : i \in 1..Len(notes)}

\* a step of saveCurrentNote: the click, or the end of a suspended save
SaveStep ==
    \/ SaveCurrentNote
    \/ \E save \in saves, converted \in BOOLEAN : ResumeSave(save, converted)

\* C27: a save adds its own note to the notes that are stored when it completes and
\* changes nothing else: no stored note is lost and no deleted note comes back,
\* whatever ran while the save was suspended
NoLostUpdate ==
    [][SaveStep => \/ storage' = storage
                   \/ NoteIds(storage') = NoteIds(storage) \cup {clock}]_vars

-----------------------------------------------------------------------------
(* Properties of the numbers claimed by several detectors *)

\* the level N that ends the text
LevelOf(text) ==
    CHOOSE n \in StopPriceLevels :
        Len(text) > Len(n) /\ SubSeq(text, Len(text) - Len(n), Len(text)) = " " \o n

\* C25: the number of a stop-loss phrasing is returned as the stop loss and not as the
\* price: the record of "<words> <phrasing> N" has stopLoss = N and no price
StopLossNotPrice ==
    Called =>
        /\ FieldOf(result, "stopLoss") = parseNumber(LevelOf(input.v))
        /\ FieldOf(result, "price") = Null

\* the fields among price, quantity and positionSize that a record has
AmountFields(res) == {f \in {"price", "quantity", "positionSize"} : FieldOf(res, f) # Null}

\* C26: the one number of "<words> N <unit>" is assigned to at most one of price,
\* quantity and positionSize
OneFieldPerNumber == Called => Cardinality(AmountFields(result)) <= 1
====
